---- MODULE Spec2Model ----
(***************************************************************************)
(* Input normalizers (tools/validators.py), the schema-less device state   *)
(* formatter (servers/vaillant.py, format_device_state) and the tools of   *)
(* servers/vaillant.py and servers/carbonintensity.py of                   *)
(* energy-mcp-experimental.                                                *)
(*                                                                         *)
(* Python values are records [kind, val]; a Python str is a sequence of    *)
(* one-character strings, so that slicing, casing and concatenation are    *)
(* computed as the code computes them.                                     *)
(***************************************************************************)
EXTENDS Integers, Sequences, FiniteSets, TLC

VARIABLES
    arg,      \* the argument of the call (a Python value)
    index,    \* format_device_state's second argument
    called,   \* name of the function applied last, "" before the first call
    result,   \* what that call returned (or raised)
    parsed,   \* the strings that call handed to datetime.fromisoformat
    prev,     \* the result of the call before it
    environ,  \* os.environ: the variables that are set, with their values
    vaillant_import,  \* what "from vaillant_client.api import ..." left behind
    requests, \* the calls made to a remote API so far, oldest first
    received  \* what the API answered to each of them

\* what the normalizers and the formatter never touch
outside == <<environ, vaillant_import, requests, received>>

vars == <<arg, index, called, result, parsed, prev, environ, vaillant_import, requests,
          received>>

----------------------------------------------------------------------------
(* Python values *)

PyNone == [kind |-> "None", val |-> <<>>]
PyStr(s) == [kind |-> "str", val |-> s]
PyInt(n) == [kind |-> "int", val |-> n]
PyBool(b) == [kind |-> "bool", val |-> b]
Raise(exc) == [kind |-> "raise", val |-> exc]

\* bool(x) for the kinds of value used as arguments
Truthy(v) ==
    CASE v.kind = "None" -> FALSE
      [] v.kind = "str"  -> Len(v.val) > 0
      [] v.kind = "int"  -> v.val # 0
      [] v.kind = "bool" -> v.val
      [] v.kind \in {"list", "dict"} -> v.val # <<>>
      [] OTHER           -> TRUE

\* isinstance(x, str)
IsStr(v) == v.kind = "str"

----------------------------------------------------------------------------
(* Characters *)

Digits == {"0", "1", "2", "3", "4", "5", "6", "7", "8", "9"}
LowerAZ == <<"a", "b", "c", "d", "e", "f", "g", "h", "i", "j", "k", "l", "m",
             "n", "o", "p", "q", "r", "s", "t", "u", "v", "w", "x", "y", "z">>
UpperAZ == <<"A", "B", "C", "D", "E", "F", "G", "H", "I", "J", "K", "L", "M",
             "N", "O", "P", "Q", "R", "S", "T", "U", "V", "W", "X", "Y", "Z">>
Range(f) == {f[i] : i \in DOMAIN f}
LowerSet == Range(LowerAZ)
UpperSet == Range(UpperAZ)
Whitespace == {" ", "\t"}

\* str.isupper() / str.islower() of one character
IsUpper(c) == c \in UpperSet
IsLower(c) == c \in LowerSet
\* regex classes \d, [A-Z], \s
IsDigit(c) == c \in Digits
IsSpace(c) == c \in Whitespace

\* str.upper() / str.lower() of one character
UpperChar(c) ==
    IF c \in LowerSet THEN UpperAZ[CHOOSE i \in DOMAIN LowerAZ : LowerAZ[i] = c]
    ELSE c
LowerChar(c) ==
    IF c \in UpperSet THEN LowerAZ[CHOOSE i \in DOMAIN UpperAZ : UpperAZ[i] = c]
    ELSE c

\* str.upper() / str.lower()
Upper(s) == [i \in 1..Len(s) |-> UpperChar(s[i])]
Lower(s) == [i \in 1..Len(s) |-> LowerChar(s[i])]

\* s[a:b] for 0 <= a, in Python's 0-based half-open indexing
Slice(s, a, b) == SubSeq(s, a + 1, IF b > Len(s) THEN Len(s) ELSE b)

----------------------------------------------------------------------------
(* validate_and_parse_postcode *)

\* re.sub(r"\s+", "", postcode)
RemoveWhitespace(s) == SelectSeq(s, LAMBDA c : ~IsSpace(c))

\* re.sub(r"\s+", "", postcode).upper()
CleanPostcode(s) == Upper(RemoveWhitespace(s))

\* The lengths <<letters, digits, trailing letter>> the quantifiers of
\* [A-Z]{1,2}\d{1,2}[A-Z]? try, in the order a greedy backtracking matcher
\* tries them.
GreedyOrder ==
    << <<2, 2, 1>>, <<2, 2, 0>>, <<2, 1, 1>>, <<2, 1, 0>>,
       <<1, 2, 1>>, <<1, 2, 0>>, <<1, 1, 1>>, <<1, 1, 0>> >>

\* ([A-Z]{1,2}\d{1,2}[A-Z]?) matched at the start of s with the lengths q
OutwardAt(s, q) ==
    /\ q[1] + q[2] + q[3] <= Len(s)
    /\ \A i \in 1..q[1] : IsUpper(s[i])
    /\ \A i \in (q[1] + 1)..(q[1] + q[2]) : IsDigit(s[i])
    /\ \A i \in (q[1] + q[2] + 1)..(q[1] + q[2] + q[3]) : IsUpper(s[i])

\* (\d[A-Z]{2})$ matched right after position p of s
InwardAt(s, p) ==
    /\ Len(s) = p + 3
    /\ IsDigit(s[p + 1])
    /\ IsUpper(s[p + 2])
    /\ IsUpper(s[p + 3])

NoMatch == [kind |-> "None", val |-> <<>>]

\* group(1) of the first way of matching in greedy order, or no match
FirstMatch(s, hits) ==
    IF hits = {} THEN NoMatch
    ELSE LET first == CHOOSE i \in hits : \A j \in hits : i <= j
             q == GreedyOrder[first]
         IN  PyStr(SubSeq(s, 1, q[1] + q[2] + q[3]))

FullPatternNoTrailingLetter(s) ==
    FirstMatch(s, {i \in DOMAIN GreedyOrder :
                     /\ GreedyOrder[i][3] = 0
                     /\ OutwardAt(s, GreedyOrder[i])
                     /\ InwardAt(s, GreedyOrder[i][1] + GreedyOrder[i][2])})

FullPatternUnanchored(s) ==
    FirstMatch(s, {i \in DOMAIN GreedyOrder :
                     LET p == GreedyOrder[i][1] + GreedyOrder[i][2] + GreedyOrder[i][3]
                     IN  /\ OutwardAt(s, GreedyOrder[i])
                         /\ Len(s) >= p + 3
                         /\ IsDigit(s[p + 1])
                         /\ IsUpper(s[p + 2])
                         /\ IsUpper(s[p + 3])})

\* the full pattern, had the inward code been \d[A-Z]{1,2}
FullPatternShortInward(s) ==
    FirstMatch(s, {i \in DOMAIN GreedyOrder :
                     LET p == GreedyOrder[i][1] + GreedyOrder[i][2] + GreedyOrder[i][3]
                     IN  /\ OutwardAt(s, GreedyOrder[i])
                         /\ Len(s) \in {p + 2, p + 3}
                         /\ IsDigit(s[p + 1])
                         /\ \A j \in (p + 2)..Len(s) : IsUpper(s[j])})

\* re.match(r"^([A-Z]{1,2}\d{1,2}[A-Z]?)(\d[A-Z]{2})$", postcode)
full_pattern(s) ==
    FirstMatch(s, {i \in DOMAIN GreedyOrder :
                     /\ OutwardAt(s, GreedyOrder[i])
                     /\ InwardAt(s, GreedyOrder[i][1] + GreedyOrder[i][2]
                                       + GreedyOrder[i][3])})

OutwardPatternUnanchored(s) ==
    FirstMatch(s, {i \in DOMAIN GreedyOrder : OutwardAt(s, GreedyOrder[i])})

\* re.match(r"^([A-Z]{1,2}\d{1,2}[A-Z]?)$", postcode)
outward_pattern(s) ==
    FirstMatch(s, {i \in DOMAIN GreedyOrder :
                     /\ OutwardAt(s, GreedyOrder[i])
                     /\ Len(s) = GreedyOrder[i][1] + GreedyOrder[i][2]
                                   + GreedyOrder[i][3]})

PostcodeFullOnly(postcode) ==
    IF ~Truthy(postcode) THEN PyNone
    ELSE IF ~IsStr(postcode) THEN PyNone
    ELSE LET cleaned == CleanPostcode(postcode.val)
         IN  IF full_pattern(cleaned) # NoMatch THEN full_pattern(cleaned)
             ELSE PyNone

validate_and_parse_postcode(postcode) ==
    IF ~Truthy(postcode) THEN PyNone
    ELSE IF ~IsStr(postcode) THEN PyNone
    ELSE LET cleaned == CleanPostcode(postcode.val)
         IN  IF full_pattern(cleaned) # NoMatch THEN full_pattern(cleaned)
             ELSE IF outward_pattern(cleaned) # NoMatch
                  THEN outward_pattern(cleaned)
                  ELSE PyNone

----------------------------------------------------------------------------
(* datetime.fromisoformat, as CPython 3.11 computes it.  Positions are     *)
(* 0-based offsets into the string, which ends in a NUL the parser may     *)
(* read.  Week dates (YYYY-Www-D) are left out: no input holds a "W".      *)

NUL == "NUL"
CharAt(s, p) == IF p < Len(s) THEN s[p + 1] ELSE NUL

DigitSeq == <<"0", "1", "2", "3", "4", "5", "6", "7", "8", "9">>
DigitVal(c) == (CHOOSE i \in DOMAIN DigitSeq : DigitSeq[i] = c) - 1

RECURSIVE DigitsValue(_, _, _)
DigitsValue(s, p, n) ==
    IF n = 0 THEN 0
    ELSE DigitsValue(s, p, n - 1) * 10 + DigitVal(CharAt(s, p + n - 1))

\* parse_digits: the value of the n digits at p, -1 when one is no digit
ParseDigits(s, p, n) ==
    IF \A k \in p..(p + n - 1) : IsDigit(CharAt(s, k))
    THEN DigitsValue(s, p, n)
    ELSE -1

\* _find_isoformat_datetime_separator, for a string of 7 or more characters
FindSeparator(s) ==
    IF Len(s) = 7 THEN 7
    ELSE IF s[5] = "-" THEN 10
    ELSE 8

\* parse_isoformat_date: <<rv, year, month, day>>
DateResult(year, sep, month, dash, day) ==
    IF year = -1 THEN <<-1, 0, 0, 0>>
    ELSE IF month = -1 THEN <<-1, 0, 0, 0>>
    ELSE IF sep /\ dash # "-" THEN <<-2, 0, 0, 0>>
    ELSE IF day = -1 THEN <<-1, 0, 0, 0>>
    ELSE <<0, year, month, day>>
ParseIsoformatDate(s) ==
    IF CharAt(s, 4) = "-"
    THEN DateResult(ParseDigits(s, 0, 4), TRUE, ParseDigits(s, 5, 2),
                    CharAt(s, 7), ParseDigits(s, 8, 2))
    ELSE DateResult(ParseDigits(s, 0, 4), FALSE, ParseDigits(s, 4, 2),
                    "-", ParseDigits(s, 6, 2))

FractionCorrection == <<100000, 10000, 1000, 100, 10>>

\* the first position at or after p that holds no digit
RECURSIVE SkipDigits(_, _)
SkipDigits(s, p) == IF IsDigit(CharAt(s, p)) THEN SkipDigits(s, p + 1) ELSE p

\* the fractional part of parse_hh_mm_ss_ff: <<rv, microsecond>>, from the
\* value of the n digits parsed and the character after the digits
FractionResult(value, n, following) ==
    IF value = -1 THEN <<-3, 0>>
    ELSE << IF following # NUL THEN 1 ELSE 0,
            IF n \in 1..5 THEN value * FractionCorrection[n] ELSE value >>
ToParse(p, pend) == IF pend - p >= 6 THEN 6 ELSE pend - p
ParseFraction(s, p, pend) ==
    FractionResult(ParseDigits(s, p, ToParse(p, pend)), ToParse(p, pend),
                   CharAt(s, SkipDigits(s, p + ToParse(p, pend))))

WithFraction(got, f) == <<f[1], got, f[2]>>

\* parse_hh_mm_ss_ff on s[p .. pend): <<rv, <<hour, minute, second>>, microsecond>>
\* rv: 0 parsed to the end of the string, 1 something follows, < 0 failed
RECURSIVE ParseHhMmSsFf(_, _, _, _, _, _)
RECURSIVE ParseComponent(_, _, _, _, _, _, _)
\* one round of its loop: d the two digits at p, c the character after them
ParseComponent(s, i, p, pend, sep, got, c) ==
    IF p >= pend THEN << IF c # NUL THEN 1 ELSE 0, got, 0 >>
    ELSE IF sep /\ c = ":"
         THEN IF i = 2 THEN WithFraction(got, ParseFraction(s, p, pend))
              ELSE ParseHhMmSsFf(s, i + 1, p, pend, sep, got)
    ELSE IF c \in {".", ","} THEN WithFraction(got, ParseFraction(s, p, pend))
    ELSE IF ~sep
         THEN IF i = 2 THEN WithFraction(got, ParseFraction(s, p - 1, pend))
              ELSE ParseHhMmSsFf(s, i + 1, p - 1, pend, sep, got)
    ELSE <<-4, got, 0>>
ParseHhMmSsFf(s, i, p, pend, hasSep, vals) ==
    IF ParseDigits(s, p, 2) = -1 THEN <<-3, vals, 0>>
    ELSE ParseComponent(s, i, p + 3, pend,
                        IF i = 0 THEN CharAt(s, p + 2) = ":" ELSE hasSep,
                        [vals EXCEPT ![i + 1] = ParseDigits(s, p, 2)],
                        CharAt(s, p + 2))

TzChars == {"Z", "+", "-"}

\* where parse_isoformat_time's do-while loop stops looking for the offset
FirstOf(found, none) ==
    IF found # {} THEN CHOOSE k \in found : \A j \in found : k <= j ELSE none
TzinfoPos(s, start) ==
    FirstOf({k \in start..(Len(s) - 1) : s[k + 1] \in TzChars},
            IF start >= Len(s) THEN start + 1 ELSE Len(s))

\* parse_isoformat_time on s[start ..):
\* [rv, time, us, tzoffset, tzus]; rv 0 no offset, 1 offset, < 0 failed
TimeResult(t, rv, off, offus) ==
    [rv |-> rv, time |-> t[2], us |-> t[3], tzoffset |-> off, tzus |-> offus]
OffsetResult(t, sign, z) ==
    TimeResult(t, IF z[1] # 0 THEN -5 ELSE 1,
               sign * (z[2][1] * 3600 + z[2][2] * 60 + z[2][3]), sign * z[3])
TimeWithTzinfo(s, tzpos, t) ==
    IF t[1] < 0 THEN TimeResult(t, t[1], 0, 0)
    ELSE IF tzpos = Len(s) THEN TimeResult(t, IF t[1] = 1 THEN -5 ELSE 0, 0, 0)
    ELSE IF CharAt(s, tzpos) = "Z"
         THEN TimeResult(t, IF CharAt(s, tzpos + 1) # NUL THEN -5 ELSE 1, 0, 0)
    ELSE OffsetResult(t, IF CharAt(s, tzpos) = "-" THEN -1 ELSE 1,
                      ParseHhMmSsFf(s, 0, tzpos + 1, Len(s), TRUE, <<0, 0, 0>>))
TimeFrom(s, start, tzpos) ==
    TimeWithTzinfo(s, tzpos, ParseHhMmSsFf(s, 0, start, tzpos, TRUE, <<0, 0, 0>>))
ParseIsoformatTime(s, start) == TimeFrom(s, start, TzinfoPos(s, start))

NoTime == [rv |-> 0, time |-> <<0, 0, 0>>, us |-> 0, tzoffset |-> 0, tzus |-> 0]

IsLeap(y) == y % 4 = 0 /\ (y % 100 # 0 \/ y % 400 = 0)
DaysInMonth(y, m) ==
    IF m = 2 THEN (IF IsLeap(y) THEN 29 ELSE 28)
    ELSE IF m \in {4, 6, 9, 11} THEN 30
    ELSE 31

\* the range checks of the datetime and timezone constructors
ValidFields(y, mo, d, h, mi, sec, us) ==
    /\ y \in 1..9999
    /\ mo \in 1..12
    /\ d \in 1..DaysInMonth(y, mo)
    /\ h \in 0..23
    /\ mi \in 0..59
    /\ sec \in 0..59
    /\ us \in 0..999999
ValidOffset(off) == -86400 < off /\ off < 86400

PyDatetime(y, mo, d, h, mi, sec, us, aware, off, offus) ==
    [kind |-> "datetime",
     val |-> [year |-> y, month |-> mo, day |-> d, hour |-> h, minute |-> mi,
              second |-> sec, microsecond |-> us,
              aware |-> aware, utcoffset |-> off, utcoffset_us |-> offus]]

\* the datetime built from the parsed date and time, or the ValueError
NewDatetime(date, time) ==
    IF date[1] < 0 THEN Raise("ValueError")
    ELSE IF time.rv < 0 THEN Raise("ValueError")
    ELSE IF time.rv = 1 /\ ~ValidOffset(time.tzoffset) THEN Raise("ValueError")
    ELSE IF ~ValidFields(date[2], date[3], date[4], time.time[1],
                         time.time[2], time.time[3], time.us)
         THEN Raise("ValueError")
    ELSE PyDatetime(date[2], date[3], date[4], time.time[1], time.time[2],
                    time.time[3], time.us, time.rv = 1, time.tzoffset, time.tzus)

TimeAfter(s, sepAt) ==
    IF Len(s) > sepAt THEN ParseIsoformatTime(s, sepAt + 1) ELSE NoTime

\* datetime.fromisoformat(date_string), date_string a str
fromisoformat(s) ==
    IF Len(s) < 7 THEN Raise("ValueError")
    ELSE NewDatetime(ParseIsoformatDate(s), TimeAfter(s, FindSeparator(s)))

----------------------------------------------------------------------------
(* validate_and_parse_date, validate_datetime *)

\* what a call returned and the strings it handed to datetime.fromisoformat
Outcome(ret, strings) == [ret |-> ret, parsed |-> strings]

\* try: return datetime.fromisoformat(s) / except Exception: return None
Caught(r, s) == IF r.kind = "raise" THEN Outcome(PyNone, <<s>>) ELSE Outcome(r, <<s>>)
TryFromisoformat(s) == Caught(fromisoformat(s), s)

MinDateLen == 8

DateNoLengthCheck(date_str) ==
    IF ~Truthy(date_str) THEN Outcome(PyNone, <<>>)
    ELSE IF ~IsStr(date_str) THEN Outcome(PyNone, <<>>)
    ELSE TryFromisoformat(date_str.val)

validate_and_parse_date(date_str) ==
    IF ~Truthy(date_str) THEN Outcome(PyNone, <<>>)
    ELSE IF ~IsStr(date_str) THEN Outcome(PyNone, <<>>)
    ELSE IF Len(date_str.val) < MinDateLen THEN Outcome(PyNone, <<>>)
    ELSE TryFromisoformat(date_str.val)

\* str.replace(old, new) for a one-character old
RECURSIVE Replace(_, _, _)
Replace(s, old, new) ==
    IF s = <<>> THEN <<>>
    ELSE (IF Head(s) = old THEN new ELSE <<Head(s)>>) \o Replace(Tail(s), old, new)

UtcOffsetText == <<"+", "0", "0", ":", "0", "0">>

Uncaught(s) == Outcome(fromisoformat(s), <<s>>)
ValidateDatetimeUnguarded(datetime_str) ==
    IF ~Truthy(datetime_str) THEN Outcome(PyNone, <<>>)
    ELSE IF ~IsStr(datetime_str) THEN Outcome(PyNone, <<>>)
    ELSE Uncaught(Replace(datetime_str.val, "Z", UtcOffsetText))

ValidateDatetimeKeepsZ(datetime_str) ==
    IF ~Truthy(datetime_str) THEN Outcome(PyNone, <<>>)
    ELSE IF ~IsStr(datetime_str) THEN Outcome(PyNone, <<>>)
    ELSE TryFromisoformat(datetime_str.val)

validate_datetime(datetime_str) ==
    IF ~Truthy(datetime_str) THEN Outcome(PyNone, <<>>)
    ELSE IF ~IsStr(datetime_str) THEN Outcome(PyNone, <<>>)
    ELSE TryFromisoformat(Replace(datetime_str.val, "Z", UtcOffsetText))

----------------------------------------------------------------------------
(* Inputs of the normalizers *)

\* Longest generated string, and how many of its characters may be
\* whitespace or punctuation
MaxLen == 7
MaxNoise == 1

PlainChars == {"A", "b", "1"}
NoiseChars == {" ", "-"}

RECURSIVE NoiseCount(_)
NoiseCount(s) ==
    IF s = <<>> THEN 0
    ELSE (IF Head(s) \in NoiseChars THEN 1 ELSE 0) + NoiseCount(Tail(s))

GeneratedStrings ==
    {s \in UNION {[1..n -> PlainChars \cup NoiseChars] : n \in 0..MaxLen} :
        NoiseCount(s) <= MaxNoise}

PostcodeExamples ==
    { <<"S", "W", "1", "A", " ", "1", "A", "A">>,
      <<"S", "W", "1", "A", "1", "A", "A">>,
      <<"s", "w", "1", "a", " ", "1", "a", "a">>,
      <<"s", "w", "1", "a">>,
      <<"S", "W", "1", "A">>,
      <<"M", "1", " ", "1", "A", "A">>,
      <<"M", "1", "1", "A", "A">>,
      <<"M", "1">>,
      <<"1", "2", "3">>,
      <<" ", "E", "C", "1", "A", "\t", "1", "B", "B", " ">>,
      <<"A", "b", "1", "1", "A", "1", "A", "b">>,
      <<"A", "b", "1", "1", " ", "1", "A", "b">>,
      <<"A", "A", "1", "1", "A", "A", "A">>,
      <<"A", "1", "A", "-", "1", "A", "A">> }

\* Timestamps are put together from a date, a separator, a time and an offset
DateParts ==
    { <<"2", "0", "2", "5", "-", "0", "5", "-", "0", "1">>,
      <<"2", "0", "2", "5", "0", "5", "0", "1">>,
      <<"2", "0", "2", "4", "-", "0", "2", "-", "2", "9">>,
      <<"2", "0", "2", "5", "-", "0", "2", "-", "2", "9">>,
      <<"2", "0", "2", "5", "-", "1", "3", "-", "0", "1">>,
      <<"2", "0", "2", "5">>,
      <<"2", "0", "2", "5", "-", "0", "5">>,
      <<"2", "0", "2", "5", "-", "5", "-", "1">>,
      <<>> }
SepParts ==
    { <<>>,
      <<"T">>,
      <<" ">>,
      <<"Z">> }
TimeParts ==
    { <<>>,
      <<"0", "1", ":", "0", "0">>,
      <<"0", "1", "0", "0">>,
      <<"0", "1">>,
      <<"2", "3", ":", "5", "9", ":", "5", "9">>,
      <<"2", "4", ":", "0", "0">>,
      <<"0", "1", ":", "6", "0">>,
      <<"1", ":", "0", "0">>,
      <<"0", "1", ":", "0", "0", ":", "0", "0", ":", "5">> }
ZoneParts ==
    { <<>>,
      <<"Z">>,
      <<"+", "0", "0", ":", "0", "0">>,
      <<"+", "0", "1", ":", "0", "0">>,
      <<"-", "0", "1", ":", "0", "0">>,
      <<"z">>,
      <<"+", "0", "0", "0", "0">>,
      <<"+", "2", "4", ":", "0", "0">>,
      <<"Z", "Z">> }

Timestamps ==
    {d \o s \o t \o z : d \in DateParts, s \in SepParts, t \in TimeParts, z \in ZoneParts}

NonStrings == {PyNone, PyInt(0), PyInt(7), PyBool(TRUE), PyBool(FALSE)}

NormalizerInputs ==
    {PyStr(s) : s \in GeneratedStrings \cup PostcodeExamples \cup Timestamps}
        \cup NonStrings

----------------------------------------------------------------------------
(* The normalizers as operations *)

NormalizerInit ==
    /\ arg \in NormalizerInputs
    /\ index = 0
    /\ called = ""
    /\ result = PyNone
    /\ parsed = <<>>
    /\ prev = PyNone
    /\ environ = <<>>
    /\ vaillant_import = PyNone
    /\ requests = <<>>
    /\ received = <<>>

Returns(out) == result' = out.ret /\ parsed' = out.parsed

CallPostcode ==
    /\ called = ""
    /\ called' = "validate_and_parse_postcode"
    /\ result' = validate_and_parse_postcode(arg)
    /\ prev' = result
    /\ UNCHANGED <<arg, index, parsed>>
    /\ UNCHANGED outside

\* the caller passes an outward code it got back through the normalizer again
RecallPostcode ==
    /\ called = "validate_and_parse_postcode"
    /\ result.kind = "str"
    /\ called' = "validate_and_parse_postcode again"
    /\ arg' = result
    /\ result' = validate_and_parse_postcode(result)
    /\ prev' = result
    /\ UNCHANGED <<index, parsed>>
    /\ UNCHANGED outside

CallDate ==
    /\ called = ""
    /\ called' = "validate_and_parse_date"
    /\ Returns(validate_and_parse_date(arg))
    /\ prev' = result
    /\ UNCHANGED <<arg, index>>
    /\ UNCHANGED outside

CallDatetime ==
    /\ called = ""
    /\ called' = "validate_datetime"
    /\ Returns(validate_datetime(arg))
    /\ prev' = result
    /\ UNCHANGED <<arg, index>>
    /\ UNCHANGED outside

EndsWithZ(v) == IsStr(v) /\ Len(v.val) > 0 /\ v.val[Len(v.val)] = "Z"

\* the caller writes the same timestamp with the offset +00:00 for the Z
WithUtcOffset(s) == SubSeq(s, 1, Len(s) - 1) \o UtcOffsetText

RecallDatetimeWithOffset ==
    /\ called = "validate_datetime"
    /\ EndsWithZ(arg)
    /\ called' = "validate_datetime with offset"
    /\ arg' = PyStr(WithUtcOffset(arg.val))
    /\ Returns(validate_datetime(arg'))
    /\ prev' = result
    /\ UNCHANGED index
    /\ UNCHANGED outside

NormalizerNext ==
    \/ CallPostcode
    \/ RecallPostcode
    \/ CallDate
    \/ CallDatetime
    \/ RecallDatetimeWithOffset

NormalizerSpec == NormalizerInit /\ [][NormalizerNext]_vars

----------------------------------------------------------------------------
(* Python values of a device state: numbers, booleans, strings, mappings.  *)
(* A dict is the sequence of its <<key, value>> items in insertion order.  *)

PyFloat(whole, tenths) == [kind |-> "float", val |-> <<whole, tenths>>]
PyDict(items) == [kind |-> "dict", val |-> items]

\* isinstance(x, (int, float)): bool is a subclass of int
IsNumber(v) == v.kind \in {"int", "float", "bool"}
\* isinstance(x, bool), isinstance(x, dict)
IsBool(v) == v.kind = "bool"
IsDict(v) == v.kind = "dict"

RECURSIVE NatText(_)
NatText(n) ==
    IF n < 10 THEN <<DigitSeq[n + 1]>>
    ELSE NatText(n \div 10) \o <<DigitSeq[(n % 10) + 1]>>
IntText(n) == IF n < 0 THEN <<"-">> \o NatText(-n) ELSE NatText(n)

\* U+00B0, one character
DegreeSign == "DEGREE"

KeySerialNumber == <<"s", "e", "r", "i", "a", "l", "N", "u", "m", "b", "e", "r">>
KeyType == <<"t", "y", "p", "e">>
KeyMetadata == <<"_", "m", "e", "t", "a", "d", "a", "t", "a">>
TextDevice == <<"D", "e", "v", "i", "c", "e", " ">>
TextUnknown == <<"U", "n", "k", "n", "o", "w", "n">>
TextHeaderStart == <<"#", "#", " ", "D", "e", "v", "i", "c", "e", ":", " ">>
TextTemperatures == <<"#", "#", "#", " ", "T", "e", "m", "p", "e", "r", "a", "t", "u", "r", "e", "s">>
TextStatusIndicators == <<"#", "#", "#", " ", "S", "t", "a", "t", "u", "s", " ", "I", "n", "d", "i", "c", "a", "t", "o", "r", "s">>
TextH3 == <<"#", "#", "#", " ">>
TextH4 == <<"#", "#", "#", "#", " ">>
TextBullet == <<"-", " ">>
TextColon == <<":", " ">>
TextDegrees == <<DegreeSign, "C">>
TextBar == <<" ", "b", "a", "r">>
TextActive == <<"A", "c", "t", "i", "v", "e">>
TextInactive == <<"I", "n", "a", "c", "t", "i", "v", "e">>
TextTrue == <<"T", "r", "u", "e">>
TextFalse == <<"F", "a", "l", "s", "e">>
TextNone == <<"N", "o", "n", "e">>
WordTemperature == <<"T", "e", "m", "p", "e", "r", "a", "t", "u", "r", "e">>
WordSpaceTemperature == <<" ", "T", "e", "m", "p", "e", "r", "a", "t", "u", "r", "e">>
WordLowerTemperature == <<"t", "e", "m", "p", "e", "r", "a", "t", "u", "r", "e">>
WordLowerPressure == <<"p", "r", "e", "s", "s", "u", "r", "e">>

\* "".join(parts)
RECURSIVE Join(_)
Join(parts) == IF parts = <<>> THEN <<>> ELSE Head(parts) \o Join(Tail(parts))

\* str(x), as an f-string renders a value; repr(x) inside a dict
RECURSIVE PyRepr(_)
RECURSIVE ReprItems(_)
ReprItems(items) ==
    IF items = <<>> THEN <<>>
    ELSE <<"'">> \o items[1][1] \o <<"'", ":", " ">> \o PyRepr(items[1][2])
           \o (IF Len(items) > 1 THEN <<",", " ">> ELSE <<>>)
           \o ReprItems(Tail(items))
PyRepr(v) ==
    CASE v.kind = "str"   -> <<"'">> \o v.val \o <<"'">>
      [] v.kind = "int"   -> IntText(v.val)
      [] v.kind = "float" -> IntText(v.val[1]) \o <<".">> \o NatText(v.val[2])
      [] v.kind = "bool"  -> IF v.val THEN TextTrue ELSE TextFalse
      [] v.kind = "dict"  -> <<"{">> \o ReprItems(v.val) \o <<"}">>
      [] OTHER            -> TextNone
Str(v) == IF v.kind = "str" THEN v.val ELSE PyRepr(v)

\* sub in s
Contains(s, sub) ==
    \E i \in 1..(Len(s) - Len(sub) + 1) : SubSeq(s, i, i + Len(sub) - 1) = sub

\* s.replace(old, new) for a non-empty old
RECURSIVE ReplaceAll(_, _, _)
ReplaceAll(s, old, new) ==
    IF Len(s) < Len(old) THEN s
    ELSE IF SubSeq(s, 1, Len(old)) = old
         THEN new \o ReplaceAll(SubSeq(s, Len(old) + 1, Len(s)), old, new)
    ELSE <<Head(s)>> \o ReplaceAll(Tail(s), old, new)

\* "".join(" " + char if char.isupper() else char for char in name)
RECURSIVE SpaceBeforeUpper(_)
SpaceBeforeUpper(name) ==
    IF name = <<>> THEN <<>>
    ELSE (IF IsUpper(Head(name)) THEN <<" ", Head(name)>> ELSE <<Head(name)>>)
           \o SpaceBeforeUpper(Tail(name))

\* str.strip()
RECURSIVE LStrip(_)
LStrip(s) == IF s # <<>> /\ IsSpace(Head(s)) THEN LStrip(Tail(s)) ELSE s
RECURSIVE RStrip(_)
RStrip(s) ==
    IF s # <<>> /\ IsSpace(s[Len(s)]) THEN RStrip(SubSeq(s, 1, Len(s) - 1)) ELSE s
Strip(s) == RStrip(LStrip(s))

\* str.capitalize()
Capitalize(s) ==
    [i \in 1..Len(s) |-> IF i = 1 THEN UpperChar(s[i]) ELSE LowerChar(s[i])]

\* readable_name as the Status Indicators and the nested sections build it
ReadableName(name) == Capitalize(Strip(SpaceBeforeUpper(name)))

\* readable_name as the Temperatures section builds it
TemperatureReadableName(name) ==
    Capitalize(Strip(SpaceBeforeUpper(
        ReplaceAll(name, WordTemperature, WordSpaceTemperature))))

----------------------------------------------------------------------------
(* format_device_state.  The report is the sequence of its lines (the text *)
(* between two "\n"); each line also records the section and the key, or   *)
(* path of keys, it was written for.                                       *)

Line(part, section, path, text) ==
    [part |-> part, section |-> section, path |-> path, text |-> text]
BlankLine(section) == Line("blank", section, <<>>, <<>>)

\* state_data.get(key), the default left out
GetOrNone(d, key, default) ==
    IF \E i \in DOMAIN d : d[i][1] = key
    THEN d[CHOOSE i \in DOMAIN d : d[i][1] = key][2]
    ELSE PyNone

\* state_data.get(key, default)
HasKey(d, key) == \E i \in DOMAIN d : d[i][1] = key
Get(d, key, default) ==
    IF HasKey(d, key) THEN d[CHOOSE i \in DOMAIN d : d[i][1] = key][2]
    ELSE default

NoMaskLen == 24

\* "V" + serial[24:] for a str longer than 24, the serial itself otherwise
masked_serial(serial) ==
    IF IsStr(serial) /\ Len(serial.val) > NoMaskLen
    THEN PyStr(<<"V">> \o Slice(serial.val, NoMaskLen, Len(serial.val)))
    ELSE serial

\* f"## Device: {masked_serial} ({device_type})\n\n"
HeaderLines(serial, device_type) ==
    << Line("header", "", <<>>,
            TextHeaderStart \o Str(masked_serial(serial)) \o <<" ", "(">>
                \o Str(device_type) \o <<")">>),
       BlankLine("") >>

RECURSIVE Reversed(_)
Reversed(s) == IF s = <<>> THEN <<>> ELSE Reversed(Tail(s)) \o <<Head(s)>>

\* the list temperatures, had it been built by inserting at the front
TemperaturesNewestFirst(state_data) ==
    Reversed(SelectSeq(state_data,
              LAMBDA item : /\ Contains(Lower(item[1]), WordLowerTemperature)
                            /\ item[1] # KeySerialNumber
                            /\ IsNumber(item[2])))

\* the list temperatures, had every number been taken for a temperature
TemperaturesAnyNumber(state_data) ==
    SelectSeq(state_data,
              LAMBDA item : item[1] # KeySerialNumber /\ IsNumber(item[2]))

\* the list temperatures
temperatures(state_data) ==
    SelectSeq(state_data,
              LAMBDA item : /\ Contains(Lower(item[1]), WordLowerTemperature)
                            /\ item[1] # KeySerialNumber
                            /\ IsNumber(item[2]))

\* the list statuses
statuses(state_data) ==
    SelectSeq(state_data,
              LAMBDA item : IsBool(item[2]) /\ item[1] # KeySerialNumber)

\* status_text with the two words exchanged
StatusTextInverted(value) == IF value THEN TextInactive ELSE TextActive

\* status_text
StatusText(value) == IF value THEN TextActive ELSE TextInactive

Bullet(section, path, name, text) ==
    Line("bullet", section, path, TextBullet \o name \o TextColon \o text)

TemperatureLine(item) ==
    Bullet("Temperatures", <<item[1]>>, TemperatureReadableName(item[1]),
           Str(item[2]) \o TextDegrees)
StatusLine(item) ==
    Bullet("Status Indicators", <<item[1]>>, ReadableName(item[1]),
           StatusText(item[2].val))

\* a section of the two lists: nothing when the list is empty
ListSection(title, heading, lines) ==
    IF lines = <<>> THEN <<>>
    ELSE <<Line("heading", title, <<>>, heading), BlankLine(title)>>
           \o lines \o <<BlankLine(title)>>

TemperatureLines(list) == [i \in 1..Len(list) |-> TemperatureLine(list[i])]
StatusLines(list) == [i \in 1..Len(list) |-> StatusLine(list[i])]

\* the lines of a mapping inside a nested mapping, had they been given
\* units and status texts
SubSubLinesWithUnits(key, subkey, items) ==
    [i \in 1..Len(items) |->
        Bullet("nested", <<key, subkey, items[i][1]>>, ReadableName(items[i][1]),
               IF Contains(Lower(items[i][1]), WordLowerTemperature) /\ IsNumber(items[i][2])
               THEN Str(items[i][2]) \o TextDegrees
               ELSE IF IsBool(items[i][2]) THEN StatusText(items[i][2].val)
               ELSE Str(items[i][2]))]

\* the entries of a mapping found inside a nested mapping
SubSubLines(key, subkey, items) ==
    [i \in 1..Len(items) |->
        Bullet("nested", <<key, subkey, items[i][1]>>, ReadableName(items[i][1]),
               Str(items[i][2]))]

\* the text after the name of a leaf, had pressure been tested first
LeafTextPressureFirst(subkey, subvalue) ==
    IF Contains(Lower(subkey), WordLowerPressure) /\ IsNumber(subvalue)
    THEN Str(subvalue) \o TextBar
    ELSE IF Contains(Lower(subkey), WordLowerTemperature) /\ IsNumber(subvalue)
    THEN Str(subvalue) \o TextDegrees
    ELSE IF IsBool(subvalue) THEN StatusText(subvalue.val)
    ELSE Str(subvalue)

\* the text after the name of a leaf of a nested mapping
LeafText(subkey, subvalue) ==
    IF Contains(Lower(subkey), WordLowerTemperature) /\ IsNumber(subvalue)
    THEN Str(subvalue) \o TextDegrees
    ELSE IF Contains(Lower(subkey), WordLowerPressure) /\ IsNumber(subvalue)
    THEN Str(subvalue) \o TextBar
    ELSE IF IsBool(subvalue) THEN StatusText(subvalue.val)
    ELSE Str(subvalue)

\* the lines of one entry of a nested mapping
SubLines(key, subkey, subvalue) ==
    IF IsDict(subvalue)
    THEN <<Line("subheading", "nested", <<key, subkey>>, TextH4 \o Capitalize(subkey)),
           BlankLine("nested")>>
           \o SubSubLines(key, subkey, subvalue.val)
    ELSE <<Bullet("nested", <<key, subkey>>, ReadableName(subkey),
                  LeafText(subkey, subvalue))>>

AllSubLines(key, items) ==
    Join([i \in 1..Len(items) |-> SubLines(key, items[i][1], items[i][2])])

\* the section of one top-level key: nothing unless its value is a mapping
NestedSection(key, value) ==
    IF IsDict(value) /\ key # KeyMetadata
    THEN <<Line("heading", "nested", <<key>>, TextH3 \o Capitalize(key)),
           BlankLine("nested")>>
           \o AllSubLines(key, value.val) \o <<BlankLine("nested")>>
    ELSE <<>>

NestedSections(state_data) ==
    Join([i \in 1..Len(state_data) |->
            NestedSection(state_data[i][1], state_data[i][2])])

\* format_device_state(state_data, index): the lines of the returned text
format_device_state(state_data, idx) ==
    HeaderLines(Get(state_data, KeySerialNumber, PyStr(TextDevice \o IntText(idx + 1))),
                Get(state_data, KeyType, PyStr(TextUnknown)))
      \o ListSection("Temperatures", TextTemperatures,
                     TemperatureLines(temperatures(state_data)))
      \o ListSection("Status Indicators", TextStatusIndicators,
                     StatusLines(statuses(state_data)))
      \o NestedSections(state_data)

\* the returned str: every line followed by "\n"
ReportText(lines) == Join([i \in 1..Len(lines) |-> lines[i].text \o <<"\n">>])

----------------------------------------------------------------------------
(* Device states *)

KeyRoomTemperatureTarget == <<"r", "o", "o", "m", "T", "e", "m", "p", "e", "r", "a", "t", "u", "r", "e", "T", "a", "r", "g", "e", "t">>
KeyTemperatureOk == <<"t", "e", "m", "p", "e", "r", "a", "t", "u", "r", "e", "O", "k">>
KeyCompressorActive == <<"c", "o", "m", "p", "r", "e", "s", "s", "o", "r", "A", "c", "t", "i", "v", "e">>
KeyCircuit == <<"c", "i", "r", "c", "u", "i", "t">>
KeyFlowTemperature == <<"f", "l", "o", "w", "T", "e", "m", "p", "e", "r", "a", "t", "u", "r", "e">>
KeyWaterPressure == <<"w", "a", "t", "e", "r", "P", "r", "e", "s", "s", "u", "r", "e">>
KeyPumpRunning == <<"p", "u", "m", "p", "R", "u", "n", "n", "i", "n", "g">>
KeyOperationMode == <<"o", "p", "e", "r", "a", "t", "i", "o", "n", "M", "o", "d", "e">>
KeyZone == <<"z", "o", "n", "e">>
KeyName == <<"n", "a", "m", "e">>
KeyInner == <<"i", "n", "n", "e", "r">>
TextVWL == <<"V", "W", "L">>
TextAuto == <<"A", "U", "T", "O">>
TextLiving == <<"l", "i", "v", "i", "n", "g">>
LongSerial == <<"2", "1", "2", "2", "3", "3", "4", "4", "5", "5", "6", "6", "7", "7", "8", "8", "9", "9", "0", "0", "1", "1", "2", "2", "A", "B", "C", "D", "E", "F">>

\* Most top-level keys of a generated state, the largest index
MaxKeys == 2
MaxIndex == 1

TopKeys ==
    {KeyRoomTemperatureTarget, KeyTemperatureOk, KeyCompressorActive,
     KeyCircuit, KeySerialNumber, KeyMetadata, KeyType}

ZoneDict ==
    PyDict(<< <<KeyName, PyStr(TextLiving)>>,
              <<KeyFlowTemperature, PyInt(30)>>,
              <<KeyWaterPressure, PyFloat(1, 5)>>,
              <<KeyPumpRunning, PyBool(FALSE)>>,
              <<KeyInner, PyDict(<< <<KeyName, PyStr(TextLiving)>> >>)>> >>)

CircuitDict ==
    PyDict(<< <<KeyFlowTemperature, PyFloat(35, 5)>>,
              <<KeyWaterPressure, PyFloat(1, 5)>>,
              <<KeyPumpRunning, PyBool(TRUE)>>,
              <<KeyOperationMode, PyStr(TextAuto)>>,
              <<KeyZone, ZoneDict>> >>)

\* one value of each type, and both booleans
TopValues ==
    {PyInt(21), PyFloat(21, 5), PyBool(TRUE), PyBool(FALSE), PyStr(TextVWL),
     CircuitDict}

KeyPressureTemperature == <<"p", "r", "e", "s", "s", "u", "r", "e", "T", "e", "m", "p", "e", "r", "a", "t", "u", "r", "e">>

\* a mapping whose temperature and pressure entries are not all numbers
SensorDict ==
    PyDict(<< <<KeyFlowTemperature, PyStr(TextAuto)>>,
              <<KeyWaterPressure, PyStr(TextAuto)>>,
              <<KeyTemperatureOk, PyBool(TRUE)>>,
              <<KeyPressureTemperature, PyInt(2)>>,
              <<KeyPumpRunning, PyBool(FALSE)>>,
              <<KeyName, PyInt(21)>> >>)

\* a unit that reports the serial of its device
UnitDict == PyDict(<< <<KeySerialNumber, PyStr(LongSerial)>> >>)

\* a serial number may also be a vendor serial of 30 characters, or its
\* first 24 or 25; the type and a nested unit may repeat the serial
ValuesOf(key) ==
    IF key = KeySerialNumber
    THEN TopValues \cup {PyStr(LongSerial), PyStr(SubSeq(LongSerial, 1, NoMaskLen)),
                         PyStr(SubSeq(LongSerial, 1, NoMaskLen + 1))}
    ELSE IF key = KeyType THEN TopValues \cup {PyStr(LongSerial)}
    ELSE IF key = KeyCircuit THEN TopValues \cup {UnitDict, SensorDict}
    ELSE TopValues

AllValues == UNION {ValuesOf(key) : key \in TopKeys}

\* the dicts of n items with distinct keys, in every insertion order
DictsOfSize(n) ==
    {d \in [1..n -> TopKeys \X AllValues] :
        /\ \A i \in 1..n : d[i][2] \in ValuesOf(d[i][1])
        /\ \A i, j \in 1..n : i # j => d[i][1] # d[j][1]}
DeviceStates == UNION {DictsOfSize(n) : n \in 0..MaxKeys}

----------------------------------------------------------------------------
(* The formatter as an operation *)

FormatInit ==
    /\ arg \in {PyDict(d) : d \in DeviceStates}
    /\ index \in 0..MaxIndex
    /\ called = ""
    /\ result = PyNone
    /\ parsed = <<>>
    /\ prev = PyNone
    /\ environ = <<>>
    /\ vaillant_import = PyNone
    /\ requests = <<>>
    /\ received = <<>>

PyReport(lines) == [kind |-> "report", val |-> lines]

\* the record with its serial number masked in place
StateDataSerialMasked(state_data) ==
    [i \in DOMAIN state_data |->
        IF state_data[i][1] = KeySerialNumber
        THEN <<state_data[i][1], masked_serial(state_data[i][2])>>
        ELSE state_data[i]]

\* the caller's record once the function has returned: the function reads
\* state_data and assigns to none of its items
StateDataAfter(state_data) == state_data

CallFormat ==
    /\ called = ""
    /\ called' = "format_device_state"
    /\ result' = PyReport(format_device_state(arg.val, index))
    /\ arg' = PyDict(StateDataAfter(arg.val))
    /\ prev' = result
    /\ UNCHANGED <<index, parsed>>
    /\ UNCHANGED outside

\* a further call on the same record
RecallFormat ==
    /\ called \in {"format_device_state", "format_device_state again"}
    /\ called' = "format_device_state again"
    /\ result' = PyReport(format_device_state(arg.val, index))
    /\ arg' = PyDict(StateDataAfter(arg.val))
    /\ prev' = result
    /\ UNCHANGED <<index, parsed>>
    /\ UNCHANGED outside

FormatNext == CallFormat \/ RecallFormat

FormatSpec == FormatInit /\ [][FormatNext]_vars

----------------------------------------------------------------------------
(* The world of the tools: os.environ, the optional vaillant-client        *)
(* package, str(datetime)                                                  *)

\* os.getenv(name, default)
getenv(env, name, default) ==
    IF name \in DOMAIN env THEN PyStr(env[name]) ELSE default

\* an exception, by the text str(e) gives
PyException(message) == [kind |-> "exception", val |-> message]
ExceptionText(e) == e.val

\* "%02d" and "%04d"
ZeroPad(n, width) ==
    [i \in 1..(width - Len(NatText(n))) |-> "0"] \o NatText(n)

\* the UTC offset as isoformat() writes it, from its seconds and its
\* microseconds, which have the same sign
Abs(n) == IF n < 0 THEN -n ELSE n
OffsetText(off, offus) ==
    <<IF off < 0 \/ offus < 0 THEN "-" ELSE "+">>
      \o ZeroPad(Abs(off) \div 3600, 2) \o <<":">>
      \o ZeroPad((Abs(off) % 3600) \div 60, 2)
      \o (IF Abs(off) % 60 # 0 \/ offus # 0
          THEN <<":">> \o ZeroPad(Abs(off) % 60, 2) ELSE <<>>)
      \o (IF offus # 0 THEN <<".">> \o ZeroPad(Abs(offus), 6) ELSE <<>>)

\* datetime.isoformat(sep)
IsoformatWith(dt, sep) ==
    ZeroPad(dt.year, 4) \o <<"-">> \o ZeroPad(dt.month, 2) \o <<"-">> \o ZeroPad(dt.day, 2)
      \o <<sep>>
      \o ZeroPad(dt.hour, 2) \o <<":">> \o ZeroPad(dt.minute, 2) \o <<":">>
      \o ZeroPad(dt.second, 2)
      \o (IF dt.microsecond # 0 THEN <<".">> \o ZeroPad(dt.microsecond, 6) ELSE <<>>)
      \o (IF dt.aware THEN OffsetText(dt.utcoffset, dt.utcoffset_us) ELSE <<>>)

\* from_dt.isoformat(), str(from_datetime)
isoformat(d) == IsoformatWith(d.val, "T")
DatetimeStr(d) == IsoformatWith(d.val, " ")

----------------------------------------------------------------------------
(* The Vaillant tools (servers/vaillant.py).  A report of a tool is        *)
(* modelled by its title and the lines that name a device, in order; the   *)
(* readings between and after them are one line marked "rest".             *)

\* U+0060, one character
Backtick == "BACKTICK"

VAILLANT_DEPENDENCY_MESSAGE ==
    <<"V", "a", "i", "l", "l", "a", "n", "t", " ", "t", "o", "o", "l", "s",
      " ", "r", "e", "q", "u", "i", "r", "e", " ", "t", "h", "e", " ", "e",
      "x", "p", "e", "r", "i", "m", "e", "n", "t", "a", "l", " ", Backtick,
      "v", "a", "i", "l", "l", "a", "n", "t", "-", "c", "l", "i", "e", "n",
      "t", Backtick, " ", "p", "a", "c", "k", "a", "g", "e", ".", " ", "I",
      "n", "s", "t", "a", "l", "l", " ", "i", "t", " ", "f", "r", "o", "m",
      " ", "h", "t", "t", "p", "s", ":", "/", "/", "g", "i", "t", "h", "u",
      "b", ".", "c", "o", "m", "/", "c", "d", "i", "n", "u", "/", "v", "a",
      "i", "l", "l", "a", "n", "t", "-", "c", "l", "i", "e", "n", "t", " ",
      "a", "n", "d", " ", "r", "e", "t", "r", "y", ".">>

TextImportError ==
    <<" ", "(", "i", "m", "p", "o", "r", "t", " ", "e", "r", "r", "o", "r",
      ":", " ">>

TextSerialNotFound ==
    <<"V", "a", "i", "l", "l", "a", "n", "t", " ", "h", "e", "a", "t", " ",
      "p", "u", "m", "p", " ", "s", "e", "r", "i", "a", "l", " ", "n", "u",
      "m", "b", "e", "r", " ", "n", "o", "t", " ", "f", "o", "u", "n", "d",
      ".">>

TextInvalidDate ==
    <<"I", "n", "v", "a", "l", "i", "d", " ", "d", "a", "t", "e", " ", "f",
      "o", "r", "m", "a", "t", ".", " ", "P", "l", "e", "a", "s", "e", " ",
      "u", "s", "e", " ", "Y", "Y", "Y", "Y", "-", "M", "M", "-", "D", "D",
      " ", "o", "r", " ", "a", " ", "v", "a", "l", "i", "d", " ", "f", "o",
      "r", "m", "a", "t", ".">>

TextNoConsumption ==
    <<"N", "o", " ", "e", "n", "e", "r", "g", "y", " ", "c", "o", "n", "s",
      "u", "m", "p", "t", "i", "o", "n", " ", "d", "a", "t", "a", " ", "a",
      "v", "a", "i", "l", "a", "b", "l", "e", ".">>

TextNoConsumptionFound ==
    <<"N", "o", " ", "c", "o", "n", "s", "u", "m", "p", "t", "i", "o", "n",
      " ", "d", "a", "t", "a", " ", "f", "o", "u", "n", "d", " ", "f", "o",
      "r", " ", "t", "h", "e", " ", "p", "e", "r", "i", "o", "d", " ">>

TextTo ==
    <<" ", "t", "o", " ">>

TextFailedConsumption ==
    <<"F", "a", "i", "l", "e", "d", " ", "t", "o", " ", "f", "e", "t", "c",
      "h", " ", "e", "n", "e", "r", "g", "y", " ", "c", "o", "n", "s", "u",
      "m", "p", "t", "i", "o", "n", ":", " ">>

TextConsumptionTitle ==
    <<"#", " ", "V", "a", "i", "l", "l", "a", "n", "t", " ", "H", "e", "a",
      "t", " ", "P", "u", "m", "p", " ", "E", "n", "e", "r", "g", "y", " ",
      "C", "o", "n", "s", "u", "m", "p", "t", "i", "o", "n">>

TextDeviceLine ==
    <<"D", "e", "v", "i", "c", "e", ":", " ">>

TextPeriod ==
    <<"P", "e", "r", "i", "o", "d", ":", " ">>

TextGranularity ==
    <<"D", "a", "t", "a", " ", "g", "r", "a", "n", "u", "l", "a", "r", "i",
      "t", "y", ":", " ">>

TextNoDiagnostics ==
    <<"N", "o", " ", "d", "i", "a", "g", "n", "o", "s", "t", "i", "c", "s",
      " ", "d", "a", "t", "a", " ", "a", "v", "a", "i", "l", "a", "b", "l",
      "e", ".">>

TextFailedDiagnostics ==
    <<"F", "a", "i", "l", "e", "d", " ", "t", "o", " ", "f", "e", "t", "c",
      "h", " ", "d", "i", "a", "g", "n", "o", "s", "t", "i", "c", "s", ":",
      " ">>

TextDiagnosticsTitle ==
    <<"#", " ", "V", "a", "i", "l", "l", "a", "n", "t", " ", "H", "e", "a",
      "t", " ", "P", "u", "m", "p", " ", "A", "d", "v", "a", "n", "c", "e",
      "d", " ", "D", "i", "a", "g", "n", "o", "s", "t", "i", "c", "s">>

TextSystemStatus ==
    <<"#", "#", " ", "S", "y", "s", "t", "e", "m", " ", "S", "t", "a", "t",
      "u", "s">>

TextNoTopology ==
    <<"N", "o", " ", "t", "o", "p", "o", "l", "o", "g", "y", " ", "d", "a",
      "t", "a", " ", "a", "v", "a", "i", "l", "a", "b", "l", "e", ".">>

TextFailedTopology ==
    <<"F", "a", "i", "l", "e", "d", " ", "t", "o", " ", "f", "e", "t", "c",
      "h", " ", "t", "o", "p", "o", "l", "o", "g", "y", ":", " ">>

TextTopologyTitle ==
    <<"#", " ", "V", "a", "i", "l", "l", "a", "n", "t", " ", "S", "y", "s",
      "t", "e", "m", " ", "T", "o", "p", "o", "l", "o", "g", "y">>

TextDevicesStart ==
    <<"#", "#", " ", "D", "e", "v", "i", "c", "e", "s", " ", "(">>

TextNoDevices ==
    <<"N", "o", " ", "d", "e", "v", "i", "c", "e", "s", " ", "f", "o", "u",
      "n", "d", " ", "i", "n", " ", "t", "h", "e", " ", "s", "y", "s", "t",
      "e", "m", ".">>

TextDeviceTableHead ==
    <<"|", " ", "S", "e", "r", "i", "a", "l", " ", "N", "u", "m", "b", "e",
      "r", " ", "|", " ", "T", "y", "p", "e", " ", "|", " ", "S", "u", "b",
      "t", "y", "p", "e", " ", "|", " ", "M", "a", "r", "k", "e", "t", "i",
      "n", "g", " ", "N", "a", "m", "e", " ", "|", " ", "N", "o", "m", "e",
      "n", "c", "l", "a", "t", "u", "r", "e", " ", "|", " ", "A", "r", "t",
      "i", "c", "l", "e", " ", "N", "u", "m", "b", "e", "r", " ", "|">>

TextDeviceTableRule ==
    <<"|", "-", "-", "-", "-", "-", "-", "-", "-", "-", "-", "-", "-", "-",
      "-", "-", "|", "-", "-", "-", "-", "-", "-", "|", "-", "-", "-", "-",
      "-", "-", "-", "-", "-", "|", "-", "-", "-", "-", "-", "-", "-", "-",
      "-", "-", "-", "-", "-", "-", "-", "-", "|", "-", "-", "-", "-", "-",
      "-", "-", "-", "-", "-", "-", "-", "-", "-", "|", "-", "-", "-", "-",
      "-", "-", "-", "-", "-", "-", "-", "-", "-", "-", "-", "-", "|">>

TextNotAvailable ==
    <<"N", "/", "A">>

TextNoSettings ==
    <<"N", "o", " ", "s", "e", "t", "t", "i", "n", "g", "s", " ", "d", "a",
      "t", "a", " ", "a", "v", "a", "i", "l", "a", "b", "l", "e", ".">>

TextFailedSettings ==
    <<"F", "a", "i", "l", "e", "d", " ", "t", "o", " ", "f", "e", "t", "c",
      "h", " ", "s", "e", "t", "t", "i", "n", "g", "s", ":", " ">>

TextSettingsTitle ==
    <<"#", " ", "V", "a", "i", "l", "l", "a", "n", "t", " ", "S", "y", "s",
      "t", "e", "m", " ", "S", "e", "t", "t", "i", "n", "g", "s">>

TextGeneralSettings ==
    <<"#", "#", "#", " ", "G", "e", "n", "e", "r", "a", "l", " ", "S", "e",
      "t", "t", "i", "n", "g", "s">>

TextNoState ==
    <<"N", "o", " ", "s", "t", "a", "t", "e", " ", "d", "a", "t", "a", " ",
      "a", "v", "a", "i", "l", "a", "b", "l", "e", ".">>

TextFailedState ==
    <<"F", "a", "i", "l", "e", "d", " ", "t", "o", " ", "f", "e", "t", "c",
      "h", " ", "s", "y", "s", "t", "e", "m", " ", "s", "t", "a", "t", "e",
      ":", " ">>

TextStateTitle ==
    <<"#", " ", "V", "a", "i", "l", "l", "a", "n", "t", " ", "S", "y", "s",
      "t", "e", "m", " ", "S", "t", "a", "t", "e">>

TextNotSubscriptable ==
    <<"'", "N", "o", "n", "e", "T", "y", "p", "e", "'", " ", "o", "b", "j",
      "e", "c", "t", " ", "i", "s", " ", "n", "o", "t", " ", "s", "u", "b",
      "s", "c", "r", "i", "p", "t", "a", "b", "l", "e">>

TextNoLen ==
    <<"o", "b", "j", "e", "c", "t", " ", "o", "f", " ", "t", "y", "p", "e",
      " ", "'", "N", "o", "n", "e", "T", "y", "p", "e", "'", " ", "h", "a",
      "s", " ", "n", "o", " ", "l", "e", "n", "(", ")">>

TextNoModule ==
    <<"N", "o", " ", "m", "o", "d", "u", "l", "e", " ", "n", "a", "m", "e",
      "d", " ", "'", "v", "a", "i", "l", "l", "a", "n", "t", "_", "c", "l",
      "i", "e", "n", "t", "'">>

TextTimeout ==
    <<"t", "i", "m", "e", "d", " ", "o", "u", "t">>

KeyVaillantSerial ==
    <<"V", "A", "I", "L", "L", "A", "N", "T", "_", "S", "E", "R", "I", "A",
      "L">>

TextUNKNOWN ==
    <<"U", "N", "K", "N", "O", "W", "N">>

TextHourly ==
    <<"h", "o", "u", "r", "l", "y">>

TextDaily ==
    <<"d", "a", "i", "l", "y">>

TextMonthly ==
    <<"m", "o", "n", "t", "h", "l", "y">>

\* what a tool returned (or raised) and the API calls it made
ToolOutcome(ret, calls) == [ret |-> ret, calls |-> calls]
Says(text) == ToolOutcome(PyStr(text), <<>>)
ApiCall(method, args) == [method |-> method, args |-> args]

\* the two ways the import at the top of the module can end
Imported == [VaillantApi |-> "class", error |-> PyNone]
NotImported(exc) == [VaillantApi |-> "None", error |-> exc]

\* VaillantApi is None or _vaillant_import_error is not None
MissingDependency(imp) == imp.VaillantApi = "None" \/ imp.error # PyNone

\* the message returned then
DependencyMessage(imp) ==
    VAILLANT_DEPENDENCY_MESSAGE
      \o (IF Truthy(imp.error)
          THEN TextImportError \o ExceptionText(imp.error) \o <<")">>
          ELSE <<>>)

\* os.getenv("VAILLANT_SERIAL", "UNKNOWN")
SerialOfEnviron(env) == getenv(env, KeyVaillantSerial, PyStr(TextUNKNOWN))

\* "V" + serial[24:], whatever the length of the serial
ShortSerial(serial) == <<"V">> \o Slice(serial, NoMaskLen, Len(serial))

\* "V" + serial[24:] if len(serial) > 24 else serial
MaskedIfLong(serial) ==
    IF Len(serial) > NoMaskLen THEN ShortSerial(serial) ELSE serial

TitleLines(title) == <<Line("title", "", <<>>, title), BlankLine("")>>
DeviceLine(text) == Line("device", "", <<>>, text)
RestLine == Line("rest", "", <<>>, <<>>)
Failed(start, exc) == PyStr(start \o ExceptionText(exc))

\* vaillant_energy_consumption from the API's answer on
ConsumptionReport(consumption, from_datetime, to_datetime, scale) ==
    IF consumption.kind = "raise" THEN Failed(TextFailedConsumption, consumption.val)
    ELSE IF consumption = PyNone THEN PyStr(TextNoConsumption)
    ELSE IF consumption.val = <<>>
    THEN PyStr(TextNoConsumptionFound \o DatetimeStr(from_datetime) \o TextTo
                 \o DatetimeStr(to_datetime) \o <<".">>)
    ELSE IF consumption.val[1].systemComponentSerialNumber = PyNone
    THEN Failed(TextFailedConsumption, PyException(TextNotSubscriptable))
    ELSE PyReport(
           TitleLines(TextConsumptionTitle)
             \o << DeviceLine(TextDeviceLine
                     \o ShortSerial(consumption.val[1].systemComponentSerialNumber.val)
                     \o <<" ", "(">> \o Str(consumption.val[1].deviceType) \o <<")">>),
                   Line("line", "", <<>>,
                        TextPeriod \o DatetimeStr(from_datetime) \o TextTo
                          \o DatetimeStr(to_datetime)),
                   Line("line", "", <<>>, TextGranularity \o Str(scale)),
                   RestLine >>)

ConsumptionWith(serial, from_datetime, to_datetime, scale, api) ==
    IF from_datetime = PyNone \/ to_datetime = PyNone THEN Says(TextInvalidDate)
    ELSE IF api.config.kind = "raise" THEN ToolOutcome(api.config, <<>>)
    ELSE ToolOutcome(
           ConsumptionReport(api.response, from_datetime, to_datetime, scale),
           <<ApiCall("get_components_consumption",
                     <<serial, scale, from_datetime, to_datetime>>)>>)

\* the same tool, had it looked for the serial number first
ConsumptionSerialFirst(from_datetime_yyyy_mm_dd, to_datetime_yyyy_mm_dd, scale, env, imp, api) ==
    IF SerialOfEnviron(env) = PyStr(TextUNKNOWN) THEN Says(TextSerialNotFound)
    ELSE IF MissingDependency(imp) THEN Says(DependencyMessage(imp))
    ELSE ConsumptionWith(SerialOfEnviron(env),
                         validate_and_parse_date(from_datetime_yyyy_mm_dd).ret,
                         validate_and_parse_date(to_datetime_yyyy_mm_dd).ret,
                         scale, api)

vaillant_energy_consumption(from_datetime_yyyy_mm_dd, to_datetime_yyyy_mm_dd, scale, env, imp, api) ==
    IF MissingDependency(imp) THEN Says(DependencyMessage(imp))
    ELSE IF SerialOfEnviron(env) = PyStr(TextUNKNOWN) THEN Says(TextSerialNotFound)
    ELSE ConsumptionWith(SerialOfEnviron(env),
                         validate_and_parse_date(from_datetime_yyyy_mm_dd).ret,
                         validate_and_parse_date(to_datetime_yyyy_mm_dd).ret,
                         scale, api)

\* the guards the four tools without arguments share, then the API call
GuardedCall(env, imp, api, method, report) ==
    IF MissingDependency(imp) THEN Says(DependencyMessage(imp))
    ELSE IF SerialOfEnviron(env) = PyStr(TextUNKNOWN) THEN Says(TextSerialNotFound)
    ELSE IF api.config.kind = "raise" THEN ToolOutcome(api.config, <<>>)
    ELSE ToolOutcome(report, <<ApiCall(method, <<SerialOfEnviron(env)>>)>>)

\* the lines of one entry of diagnostics.root
DiagnosticsLines(diag) ==
    (IF diag.serialNumber # PyNone
     THEN <<DeviceLine(<<"#", "#", " ">> \o TextDeviceLine
                         \o ShortSerial(diag.serialNumber.val))>>
     ELSE <<>>)
      \o <<Line("heading", "", <<>>, TextSystemStatus), BlankLine(""), RestLine>>

DiagnosticsReport(diagnostics) ==
    IF diagnostics.kind = "raise" THEN Failed(TextFailedDiagnostics, diagnostics.val)
    ELSE IF diagnostics = PyNone THEN PyStr(TextNoDiagnostics)
    ELSE PyReport(TitleLines(TextDiagnosticsTitle)
                    \o Join([i \in DOMAIN diagnostics.val |->
                                DiagnosticsLines(diagnostics.val[i])]))

vaillant_advanced_diagnostics(env, imp, api) ==
    GuardedCall(env, imp, api, "get_advanced_diagnostics",
                DiagnosticsReport(api.response))

\* the row of the table for one device of the topology
TopologyRow(device) ==
    DeviceLine(<<"|", " ">> \o MaskedIfLong(device.serialNumber.val)
                 \o <<" ", "|", " ">> \o Str(device.type)
                 \o Join([i \in 1..4 |-> <<" ", "|", " ">> \o TextNotAvailable])
                 \o <<" ", "|">>)

TopologyDevices(devices) ==
    <<Line("heading", "", <<>>,
           TextDevicesStart \o NatText(Len(devices)) \o <<")">>), BlankLine("")>>
      \o (IF devices = <<>> THEN <<Line("line", "", <<>>, TextNoDevices)>>
          ELSE <<Line("line", "", <<>>, TextDeviceTableHead),
                 Line("line", "", <<>>, TextDeviceTableRule)>>
                 \o [i \in DOMAIN devices |-> TopologyRow(devices[i])])

TopologyReport(topology) ==
    IF topology.kind = "raise" THEN Failed(TextFailedTopology, topology.val)
    ELSE IF topology = PyNone THEN PyStr(TextNoTopology)
    ELSE PyReport(TitleLines(TextTopologyTitle) \o <<RestLine>>
                    \o TopologyDevices(topology.val))

vaillant_get_topology(env, imp, api) ==
    GuardedCall(env, imp, api, "get_topology", TopologyReport(api.response))

\* the lines of one entry of settings_response.root
SettingsLines(settings) ==
    << DeviceLine(<<"#", "#", " ">> \o TextDeviceLine
                    \o MaskedIfLong(settings.serialNumber.val)
                    \o <<" ", "(">> \o Str(settings.type) \o <<")">>),
       BlankLine(""),
       Line("heading", "", <<>>, TextGeneralSettings),
       BlankLine(""),
       RestLine,
       BlankLine(""),
       Line("line", "", <<>>, <<"-", "-", "-">>),
       BlankLine("") >>

SettingsReport(settings_response) ==
    IF settings_response.kind = "raise"
    THEN Failed(TextFailedSettings, settings_response.val)
    ELSE IF settings_response = PyNone \/ settings_response.val = <<>>
    THEN PyStr(TextNoSettings)
    ELSE PyReport(TitleLines(TextSettingsTitle)
                    \o Join([i \in DOMAIN settings_response.val |->
                                SettingsLines(settings_response.val[i])]))

vaillant_get_settings(env, imp, api) ==
    GuardedCall(env, imp, api, "get_system_settings", SettingsReport(api.response))

\* the state is one record or a list of records
StateReport(state_data) ==
    IF state_data.kind = "raise" THEN Failed(TextFailedState, state_data.val)
    ELSE IF state_data = PyNone \/ state_data.val = <<>> THEN PyStr(TextNoState)
    ELSE IF state_data.kind = "list"
    THEN PyReport(TitleLines(TextStateTitle)
                    \o Join([i \in DOMAIN state_data.val |->
                                format_device_state(state_data.val[i].val, i - 1)]))
    ELSE PyReport(TitleLines(TextStateTitle) \o format_device_state(state_data.val, 0))

vaillant_get_state(env, imp, api) ==
    GuardedCall(env, imp, api, "get_system_state", StateReport(api.response))

----------------------------------------------------------------------------
(* The Vaillant tools as operations: the arguments, the environment, the   *)
(* outcome of the import and the answers of the API are chosen freely      *)

PyList(items) == [kind |-> "list", val |-> items]
PyArgs(args) == [kind |-> "args", val |-> args]

Date20250101 == <<"2", "0", "2", "5", "-", "0", "1", "-", "0", "1">>
Date20250102 == <<"2", "0", "2", "5", "-", "0", "1", "-", "0", "2">>
DateArguments ==
    {PyStr(Date20250101), PyStr(Date20250102), PyStr(<<"2", "0", "2", "5">>),
     PyStr(<<>>), PyNone}
Scales == {PyStr(TextHourly), PyStr(TextDaily), PyStr(TextMonthly)}
ConsumptionArguments ==
    {PyArgs(<<f, t, s>>) : f \in DateArguments, t \in DateArguments, s \in Scales}

Serial24 == SubSeq(LongSerial, 1, NoMaskLen)
VaillantEnvirons ==
    {<<>>} \cup {[name \in {KeyVaillantSerial} |-> v] :
                    v \in {TextUNKNOWN, LongSerial, Serial24}}

ImportOutcomes == {Imported, NotImported(PyException(TextNoModule))}

\* VaillantApiConfig() and VaillantApi(...) return or raise, then the
\* method of the API returns or raises
ApiOutcomes(responses) ==
    {[config |-> Raise(PyException(TextTimeout)), response |-> PyNone]}
      \cup {[config |-> PyNone, response |-> r] :
               r \in responses \cup {PyNone, Raise(PyException(TextTimeout))}}

System(serial) == [systemComponentSerialNumber |-> serial, deviceType |-> PyStr(TextVWL)]
Device(serial) == [serialNumber |-> serial, type |-> PyStr(TextVWL)]
SomeSerials == {PyStr(LongSerial), PyStr(Serial24)}

Consumptions ==
    {PyList(<<>>)} \cup {PyList(<<System(s)>>) : s \in SomeSerials \cup {PyNone}}
Diagnostics ==
    {PyList(<<>>)} \cup {PyList(<<Device(s)>>) : s \in SomeSerials \cup {PyNone}}
      \cup {PyList(<<Device(s), Device(t)>>) : s \in {PyNone}, t \in SomeSerials}
Topologies ==
    {PyList(<<>>)} \cup {PyList(<<Device(s)>>) : s \in SomeSerials}
      \cup {PyList(<<Device(s), Device(t)>>) : s, t \in SomeSerials}
Settings ==
    {PyList(<<>>)} \cup {PyList(<<Device(s)>>) : s \in SomeSerials}
      \cup {PyList(<<Device(s), Device(t)>>) : s, t \in SomeSerials}
SomeStates ==
    {PyDict(<< <<KeySerialNumber, PyStr(LongSerial)>>, <<KeyTemperatureOk, PyBool(TRUE)>> >>),
     PyDict(<< <<KeySerialNumber, PyStr(Serial24)>>, <<KeyType, PyStr(TextVWL)>> >>),
     PyDict(<< <<KeyRoomTemperatureTarget, PyInt(21)>>, <<KeyCircuit, CircuitDict>> >>)}
States ==
    {PyDict(<<>>), PyList(<<>>)} \cup SomeStates
      \cup {PyList(<<s, t>>) : s, t \in SomeStates}

VaillantInit ==
    /\ arg \in ConsumptionArguments
    /\ index = 0
    /\ called = ""
    /\ result = PyNone
    /\ parsed = <<>>
    /\ prev = PyNone
    /\ environ \in VaillantEnvirons
    /\ vaillant_import \in ImportOutcomes
    /\ requests = <<>>
    /\ received = <<>>

\* a tool is called once; the calls it made are added to those made so far
ToolReturns(name, out, answer) ==
    /\ called' = name
    /\ result' = out.ret
    /\ requests' = requests \o out.calls
    /\ received' = IF out.calls = <<>> THEN received ELSE Append(received, answer)
    /\ prev' = result
    /\ UNCHANGED <<arg, index, parsed, environ, vaillant_import>>

CallEnergyConsumption ==
    /\ called = ""
    /\ \E api \in ApiOutcomes(Consumptions) :
        ToolReturns("vaillant_energy_consumption",
                    vaillant_energy_consumption(arg.val[1], arg.val[2], arg.val[3],
                                                environ, vaillant_import, api),
                    api.response)
CallAdvancedDiagnostics ==
    /\ called = ""
    /\ \E api \in ApiOutcomes(Diagnostics) :
        ToolReturns("vaillant_advanced_diagnostics",
                    vaillant_advanced_diagnostics(environ, vaillant_import, api),
                    api.response)
CallGetTopology ==
    /\ called = ""
    /\ \E api \in ApiOutcomes(Topologies) :
        ToolReturns("vaillant_get_topology",
                    vaillant_get_topology(environ, vaillant_import, api),
                    api.response)
CallGetSettings ==
    /\ called = ""
    /\ \E api \in ApiOutcomes(Settings) :
        ToolReturns("vaillant_get_settings",
                    vaillant_get_settings(environ, vaillant_import, api),
                    api.response)
CallGetState ==
    /\ called = ""
    /\ \E api \in ApiOutcomes(States) :
        ToolReturns("vaillant_get_state",
                    vaillant_get_state(environ, vaillant_import, api),
                    api.response)

VaillantNext ==
    \/ CallEnergyConsumption
    \/ CallAdvancedDiagnostics
    \/ CallGetTopology
    \/ CallGetSettings
    \/ CallGetState

VaillantSpec == VaillantInit /\ [][VaillantNext]_vars

----------------------------------------------------------------------------
(* The carbon intensity tools (servers/carbonintensity.py).  A report is    *)
(* modelled by its heading lines; the periods and the generation mix after  *)
(* them are one line marked "rest".                                         *)

BASE_URL ==
    <<"h", "t", "t", "p", "s", ":", "/", "/", "a", "p", "i", ".", "c", "a",
      "r", "b", "o", "n", "i", "n", "t", "e", "n", "s", "i", "t", "y", ".",
      "o", "r", "g", ".", "u", "k">>

KeyUserPostcode ==
    <<"U", "S", "E", "R", "_", "P", "O", "S", "T", "C", "O", "D", "E">>

KeyData ==
    <<"d", "a", "t", "a">>

KeyShortname ==
    <<"s", "h", "o", "r", "t", "n", "a", "m", "e">>

KeyError ==
    <<"e", "r", "r", "o", "r">>

KeyFrom ==
    <<"f", "r", "o", "m">>

KeyTo ==
    <<"t", "o">>

TextPostcodeNotFound ==
    <<"U", "s", "e", "r", " ", "p", "o", "s", "t", "c", "o", "d", "e", " ",
      "n", "o", "t", " ", "f", "o", "u", "n", "d", ".", " ", "P", "l", "e",
      "a", "s", "e", " ", "p", "r", "o", "v", "i", "d", "e", " ", "a", " ",
      "p", "o", "s", "t", "c", "o", "d", "e", " ", "o", "r", " ", "s", "e",
      "t", " ", "t", "h", "e", " ", "U", "S", "E", "R", "_", "P", "O", "S",
      "T", "C", "O", "D", "E", " ", "e", "n", "v", "i", "r", "o", "n", "m",
      "e", "n", "t", " ", "v", "a", "r", "i", "a", "b", "l", "e", " ", "o",
      "n", " ", "t", "h", "e", " ", "M", "C", "P", " ", "s", "e", "r", "v",
      "e", "r">>

TextInvalidPostcodeStart ==
    <<"I", "n", "v", "a", "l", "i", "d", " ", "U", "K", " ", "p", "o", "s",
      "t", "c", "o", "d", "e", " ", "f", "o", "r", "m", "a", "t", ":", " ">>

TextInvalidPostcodeEnd ==
    <<".", " ", "P", "l", "e", "a", "s", "e", " ", "p", "r", "o", "v", "i",
      "d", "e", " ", "a", " ", "v", "a", "l", "i", "d", " ", "U", "K", " ",
      "p", "o", "s", "t", "c", "o", "d", "e", ".">>

TextRegionalPostcode ==
    <<"/", "r", "e", "g", "i", "o", "n", "a", "l", "/", "p", "o", "s", "t",
      "c", "o", "d", "e", "/">>

TextNoDataForPostcode ==
    <<"N", "o", " ", "c", "a", "r", "b", "o", "n", " ", "i", "n", "t", "e",
      "n", "s", "i", "t", "y", " ", "d", "a", "t", "a", " ", "a", "v", "a",
      "i", "l", "a", "b", "l", "e", " ", "f", "o", "r", " ", "p", "o", "s",
      "t", "c", "o", "d", "e", " ">>

TextCarbonFor ==
    <<"C", "a", "r", "b", "o", "n", " ", "i", "n", "t", "e", "n", "s", "i",
      "t", "y", " ", "f", "o", "r", " ">>

TextOutwardCode ==
    <<" ", "(", "o", "u", "t", "w", "a", "r", "d", " ", "c", "o", "d", "e",
      ":", " ">>

TextFailedData ==
    <<"F", "a", "i", "l", "e", "d", " ", "t", "o", " ", "f", "e", "t", "c",
      "h", " ", "c", "a", "r", "b", "o", "n", " ", "i", "n", "t", "e", "n",
      "s", "i", "t", "y", " ", "d", "a", "t", "a", ":", " ">>

TextInvalidDatetime ==
    <<"I", "n", "v", "a", "l", "i", "d", " ", "d", "a", "t", "e", "t", "i",
      "m", "e", " ", "f", "o", "r", "m", "a", "t", ".", " ", "P", "l", "e",
      "a", "s", "e", " ", "u", "s", "e", " ", "I", "S", "O", " ", "8", "6",
      "0", "1", " ", "f", "o", "r", "m", "a", "t", " ", "(", "e", ".", "g",
      ".", ",", " ", "2", "0", "2", "5", "-", "0", "5", "-", "0", "1", "T",
      "0", "1", ":", "0", "0", "Z", ")", ".">>

TextRegionalIntensity ==
    <<"/", "r", "e", "g", "i", "o", "n", "a", "l", "/", "i", "n", "t", "e",
      "n", "s", "i", "t", "y", "/">>

TextIntensity ==
    <<"/", "i", "n", "t", "e", "n", "s", "i", "t", "y", "/">>

TextFw ==
    <<"/", "f", "w">>

TextHPostcode ==
    <<"h", "/", "p", "o", "s", "t", "c", "o", "d", "e", "/">>

TextNoForecast ==
    <<"N", "o", " ", "f", "o", "r", "e", "c", "a", "s", "t", " ", "d", "a",
      "t", "a", " ", "a", "v", "a", "i", "l", "a", "b", "l", "e", " ", "f",
      "o", "r", " ", "t", "h", "e", " ", "s", "p", "e", "c", "i", "f", "i",
      "e", "d", " ", "p", "a", "r", "a", "m", "e", "t", "e", "r", "s", ".">>

TextForecastFor ==
    <<"C", "a", "r", "b", "o", "n", " ", "i", "n", "t", "e", "n", "s", "i",
      "t", "y", " ", "f", "o", "r", "e", "c", "a", "s", "t", " ", "f", "o",
      "r", " ">>

TextFor ==
    <<")", " ", "f", "o", "r", " ">>

TextHoursFrom ==
    <<" ", "h", "o", "u", "r", "s", " ", "f", "r", "o", "m", " ">>

TextNationalForecastFor ==
    <<"*", "*", "N", "a", "t", "i", "o", "n", "a", "l", "*", "*", " ", "c",
      "a", "r", "b", "o", "n", " ", "i", "n", "t", "e", "n", "s", "i", "t",
      "y", " ", "f", "o", "r", "e", "c", "a", "s", "t", " ", "f", "o", "r",
      " ">>

TextInGco2 ==
    <<" ", "i", "n", " ", "g", "C", "O", "2", "/", "k", "W", "h", " ", "a",
      "n", "d", " ", "i", "t", "s", " ", "i", "n", "t", "e", "n", "s", "i",
      "t", "y", ":">>

TextFailedForecast ==
    <<"F", "a", "i", "l", "e", "d", " ", "t", "o", " ", "f", "e", "t", "c",
      "h", " ", "c", "a", "r", "b", "o", "n", " ", "i", "n", "t", "e", "n",
      "s", "i", "t", "y", " ", "f", "o", "r", "e", "c", "a", "s", "t", ":",
      " ">>

TextNationalTitle ==
    <<"#", " ", "U", "K", " ", "N", "a", "t", "i", "o", "n", "a", "l", " ",
      "C", "a", "r", "b", "o", "n", " ", "I", "n", "t", "e", "n", "s", "i",
      "t", "y", " ", "F", "o", "r", "e", "c", "a", "s", "t">>

TextStartingFrom ==
    <<"S", "t", "a", "r", "t", "i", "n", "g", " ", "f", "r", "o", "m", ":",
      " ">>

TextForecastDuration ==
    <<"F", "o", "r", "e", "c", "a", "s", "t", " ", "d", "u", "r", "a", "t",
      "i", "o", "n", ":", " ">>

TextHours ==
    <<" ", "h", "o", "u", "r", "s">>

TextGeneration ==
    <<"/", "g", "e", "n", "e", "r", "a", "t", "i", "o", "n">>

TextNoGeneration ==
    <<"N", "o", " ", "g", "e", "n", "e", "r", "a", "t", "i", "o", "n", " ",
      "m", "i", "x", " ", "d", "a", "t", "a", " ", "a", "v", "a", "i", "l",
      "a", "b", "l", "e", ".">>

TextGenerationTitle ==
    <<"U", "K", " ", "N", "a", "t", "i", "o", "n", "a", "l", " ", "G", "e",
      "n", "e", "r", "a", "t", "i", "o", "n", " ", "M", "i", "x", " ", "(">>

TextFailedGeneration ==
    <<"F", "a", "i", "l", "e", "d", " ", "t", "o", " ", "f", "e", "t", "c",
      "h", " ", "g", "e", "n", "e", "r", "a", "t", "i", "o", "n", " ", "m",
      "i", "x", " ", "d", "a", "t", "a", ":", " ">>

TextKeyErrorData ==
    <<"'", "d", "a", "t", "a", "'">>

TextListIndices ==
    <<"l", "i", "s", "t", " ", "i", "n", "d", "i", "c", "e", "s", " ", "m",
      "u", "s", "t", " ", "b", "e", " ", "i", "n", "t", "e", "g", "e", "r",
      "s", " ", "o", "r", " ", "s", "l", "i", "c", "e", "s", ",", " ", "n",
      "o", "t", " ", "s", "t", "r">>

TextServerError ==
    <<"5", "0", "3", " ", "S", "e", "r", "v", "e", "r", " ", "E", "r", "r",
      "o", "r", ":", " ", "S", "e", "r", "v", "i", "c", "e", " ", "U", "n",
      "a", "v", "a", "i", "l", "a", "b", "l", "e", " ", "f", "o", "r", " ",
      "u", "r", "l">>

TextLondon ==
    <<"L", "o", "n", "d", "o", "n">>

TextList ==
    <<"l", "i", "s", "t">>

TextTable ==
    <<"t", "a", "b", "l", "e">>

Text24 ==
    <<"2", "4">>

Text48 ==
    <<"4", "8">>

TextPeriodFrom ==
    <<"2", "0", "2", "5", "-", "0", "5", "-", "0", "1", "T", "0", "1", ":",
      "0", "0", "Z">>

TextPeriodTo ==
    <<"2", "0", "2", "5", "-", "0", "5", "-", "0", "1", "T", "0", "1", ":",
      "3", "0", "Z">>

\* requests.get(f"{BASE_URL}{endpoint}")
Request(endpoint) == ApiCall("requests.get", <<PyStr(BASE_URL \o endpoint)>>)

\* _make_request: the decoded answer, or the exception of requests.get and
\* raise_for_status
MakeRequest(endpoint, report) == ToolOutcome(report, <<Request(endpoint)>>)

\* "data" not in data
NoDataKey(data) == ~HasKey(data.val, KeyData)
DataOf(data) == Get(data.val, KeyData, PyNone)

HeadingLine(text) == Line("title", "", <<>>, text)
RestIf(cond) == IF cond THEN <<RestLine>> ELSE <<>>

\* current_uk_grid_carbon_intensity_in_postcode from the answer on
CurrentReport(data, full_postcode, outward_code) ==
    IF data.kind = "raise" THEN Failed(TextFailedData, data.val)
    ELSE IF ~Truthy(data) \/ NoDataKey(data) \/ ~Truthy(DataOf(data))
    THEN PyStr(TextNoDataForPostcode \o outward_code.val \o <<".">>)
    ELSE PyReport(<<HeadingLine(TextCarbonFor \o Str(full_postcode)
                        \o TextOutwardCode \o outward_code.val \o <<",", " ">>
                        \o Get(DataOf(data).val[1].val, KeyShortname, PyNone).val
                        \o <<")", ":">>),
                    BlankLine(""), RestLine>>)

InvalidPostcode(postcode) ==
    Says(TextInvalidPostcodeStart \o Str(postcode) \o TextInvalidPostcodeEnd)

current_uk_grid_carbon_intensity_in_postcode(post_code, answers) ==
    LET full_postcode == post_code
        outward_code == validate_and_parse_postcode(full_postcode)
        endpoint == TextRegionalPostcode \o outward_code.val
    IN  IF ~Truthy(full_postcode) THEN Says(TextPostcodeNotFound)
        ELSE IF ~Truthy(outward_code) THEN InvalidPostcode(full_postcode)
        ELSE MakeRequest(endpoint,
                 CurrentReport(answers.current, full_postcode, outward_code))

\* from_dt, had an unusable from_datetime been replaced by the current time
FromDtOrNow(from_datetime, now) ==
    IF validate_datetime(from_datetime).ret = PyNone THEN now
    ELSE validate_datetime(from_datetime).ret

\* from_dt of the two forecast tools
FromDt(from_datetime, now) ==
    IF from_datetime = PyNone THEN now ELSE validate_datetime(from_datetime).ret

RegionalEndpoint(from_dt, forecast_hours, outward_code) ==
    TextRegionalIntensity \o isoformat(from_dt) \o TextFw \o Str(forecast_hours)
        \o TextHPostcode \o outward_code.val
NationalEndpoint(from_dt, forecast_hours) ==
    TextIntensity \o isoformat(from_dt) \o TextFw \o Str(forecast_hours) \o <<"h">>

\* carbon_intensity_history_and_forecast_for_postcode from the answer on
PostcodeForecastReport(data, from_dt, forecast_hours, postcode, outward_code) ==
    IF data.kind = "raise" THEN Failed(TextFailedForecast, data.val)
    ELSE IF ~Truthy(data) THEN PyStr(TextNoForecast)
    ELSE IF NoDataKey(data)
    THEN Failed(TextFailedForecast, PyException(TextKeyErrorData))
    ELSE IF Truthy(outward_code) /\ ~IsDict(DataOf(data))
    THEN Failed(TextFailedForecast, PyException(TextListIndices))
    ELSE IF Truthy(outward_code)
    THEN PyReport(<<HeadingLine(TextForecastFor \o Str(postcode)
                             \o TextOutwardCode \o outward_code.val \o <<",", " ">>
                             \o Get(DataOf(data).val, KeyShortname, PyNone).val
                             \o TextFor \o Str(forecast_hours) \o TextHoursFrom
                             \o isoformat(from_dt) \o <<":">>),
                         BlankLine("")>>
                       \o RestIf(Truthy(Get(DataOf(data).val, KeyData, PyNone))))
    ELSE PyReport(<<HeadingLine(TextNationalForecastFor \o Str(forecast_hours)
                        \o TextHoursFrom \o isoformat(from_dt) \o TextInGco2),
                    BlankLine("")>>
                  \o RestIf(Truthy(DataOf(data))))

\* the same tool, had it validated the postcode before the datetime
PostcodeForecastPostcodeFirst(from_dt, forecast_hours, postcode, answers) ==
    IF Truthy(postcode) /\ ~Truthy(validate_and_parse_postcode(postcode))
    THEN InvalidPostcode(postcode)
    ELSE IF from_dt = PyNone THEN Says(TextInvalidDatetime)
    ELSE IF Truthy(postcode)
    THEN MakeRequest(RegionalEndpoint(from_dt, forecast_hours,
                                      validate_and_parse_postcode(postcode)),
                     PostcodeForecastReport(answers.regional, from_dt, forecast_hours,
                                            postcode,
                                            validate_and_parse_postcode(postcode)))
    ELSE MakeRequest(NationalEndpoint(from_dt, forecast_hours),
                     PostcodeForecastReport(answers.national, from_dt, forecast_hours,
                                            postcode, PyNone))

PostcodeForecastFrom(from_dt, forecast_hours, postcode, answers) ==
    LET outward_code == IF Truthy(postcode) THEN validate_and_parse_postcode(postcode)
                        ELSE PyNone
        endpoint == IF Truthy(outward_code)
                    THEN RegionalEndpoint(from_dt, forecast_hours, outward_code)
                    ELSE NationalEndpoint(from_dt, forecast_hours)
        data == IF Truthy(outward_code) THEN answers.regional ELSE answers.national
    IN  IF from_dt = PyNone THEN Says(TextInvalidDatetime)
        ELSE IF Truthy(postcode) /\ ~Truthy(outward_code) THEN InvalidPostcode(postcode)
        ELSE MakeRequest(endpoint,
                 PostcodeForecastReport(data, from_dt, forecast_hours, postcode,
                                        outward_code))

carbon_intensity_history_and_forecast_for_postcode(from_datetime, forecast_hours, postcode, now, answers) ==
    PostcodeForecastFrom(FromDt(from_datetime, now), forecast_hours, postcode, answers)

\* carbon_intensity_history_and_forecast_national from the answer on
NationalForecastReport(data, from_dt, forecast_hours, format_type) ==
    IF data.kind = "raise" THEN Failed(TextFailedForecast, data.val)
    ELSE IF ~Truthy(data) \/ NoDataKey(data) THEN PyStr(TextNoForecast)
    ELSE PyReport(<<HeadingLine(TextNationalTitle), BlankLine(""),
                    HeadingLine(TextStartingFrom \o isoformat(from_dt)),
                    HeadingLine(TextForecastDuration \o Str(forecast_hours)
                                    \o TextHours),
                    BlankLine("")>>
                  \o RestIf(format_type # PyStr(TextList) \/ Truthy(DataOf(data))))

carbon_intensity_history_and_forecast_national(from_datetime, forecast_hours, format_type, now, answers) ==
    LET from_dt == FromDt(from_datetime, now)
        endpoint == NationalEndpoint(from_dt, forecast_hours)
    IN  IF from_dt = PyNone THEN Says(TextInvalidDatetime)
        ELSE MakeRequest(endpoint,
                 NationalForecastReport(answers.national, from_dt, forecast_hours,
                                        format_type))

\* current_national_generation_mix
GenerationReport(data) ==
    IF data.kind = "raise" THEN Failed(TextFailedGeneration, data.val)
    ELSE IF ~Truthy(data) \/ NoDataKey(data) \/ ~Truthy(DataOf(data))
    THEN PyStr(TextNoGeneration)
    ELSE PyReport(<<HeadingLine(TextGenerationTitle
                        \o Str(Get(DataOf(data).val, KeyFrom, PyNone)) \o TextTo
                        \o Str(Get(DataOf(data).val, KeyTo, PyNone)) \o <<")", ":">>),
                    BlankLine(""), RestLine>>)

current_national_generation_mix(answers) ==
    MakeRequest(TextGeneration, GenerationReport(answers.generation))

----------------------------------------------------------------------------
(* The carbon intensity tools as operations: one tool is called, with the  *)
(* API in one of its conditions and the clock at one of its readings       *)

Example20250501 ==
    <<"2", "0", "2", "5", "-", "0", "5", "-", "0", "1", "T", "0", "1", ":",
      "0", "0">>
FromDatetimes ==
    {PyNone, PyStr(<<>>),
     PyStr(Example20250501 \o <<"Z">>),
     PyStr(Example20250501),
     PyStr(Example20250501 \o <<"+", "0", "1", ":", "0", "0">>),
     PyStr(SubSeq(Example20250501, 1, 10)),
     PyStr(SubSeq(Example20250501, 1, 4)),
     PyStr(<<"n", "o", "w">>),
     PyStr(<<"2", "0", "2", "5", "-", "1", "3", "-", "0", "1", "T", "0", "1",
             ":", "0", "0", "Z">>)}
ForecastHours == {PyStr(Text24), PyStr(Text48)}
FormatTypes == {PyStr(TextList), PyStr(TextTable)}
PostcodeSW1A1AA == <<"S", "W", "1", "A", " ", "1", "A", "A">>
PostcodeArguments ==
    {PyNone, PyStr(<<>>),
     PyStr(PostcodeSW1A1AA),
     PyStr(<<"s", "w", "1", "a", "1", "a", "a">>),
     PyStr(<<"M", "1">>),
     PyStr(<<"1", "2", "3">>),
     PyStr(TextLondon)}
CarbonArguments ==
    {PyArgs(<<f, h, p, t>>) : f \in FromDatetimes, h \in ForecastHours,
                              p \in PostcodeArguments, t \in FormatTypes}
CarbonEnvirons ==
    {<<>>} \cup {[name \in {KeyUserPostcode} |-> v] : v \in {PostcodeSW1A1AA, TextLondon}}

\* datetime.now(): a naive datetime
Nows ==
    {PyDatetime(2025, 5, 1, 12, 0, 0, 0, FALSE, 0, 0),
     PyDatetime(2025, 5, 1, 12, 0, 0, 123456, FALSE, 0, 0)}

Period == PyDict(<<<<KeyFrom, PyStr(TextPeriodFrom)>>, <<KeyTo, PyStr(TextPeriodTo)>>>>)
Region ==
    PyDict(<<<<KeyShortname, PyStr(TextLondon)>>, <<KeyData, PyList(<<Period>>)>>>>)

\* what the API answers to a request: an error status, or a JSON object
Servers == {"down", "empty", "nodata", "emptydata", "ok"}
Answer(server, payload) ==
    CASE server = "down"      -> Raise(PyException(TextServerError))
      [] server = "empty"     -> PyDict(<<>>)
      [] server = "nodata"    -> PyDict(<<<<KeyError, PyInt(1)>>>>)
      [] server = "emptydata" -> PyDict(<<<<KeyData, PyList(<<>>)>>>>)
      [] OTHER                -> PyDict(<<<<KeyData, payload>>>>)
Answers(server) ==
    [current    |-> Answer(server, PyList(<<Region>>)),
     regional   |-> Answer(server, Region),
     national   |-> Answer(server, PyList(<<Period>>)),
     generation |-> Answer(server, Period)]

CarbonInit ==
    /\ arg \in CarbonArguments
    /\ index = 0
    /\ called = ""
    /\ result = PyNone
    /\ parsed = <<>>
    /\ prev = PyNone
    /\ environ \in CarbonEnvirons
    /\ vaillant_import = PyNone
    /\ requests = <<>>
    /\ received = <<>>

CallCurrentInPostcode ==
    /\ called = ""
    /\ \E server \in Servers :
        ToolReturns("current_uk_grid_carbon_intensity_in_postcode",
                    current_uk_grid_carbon_intensity_in_postcode(
                        arg.val[3], Answers(server)),
                    Answers(server).current)
CallForecastForPostcode ==
    /\ called = ""
    /\ \E server \in Servers, now \in Nows :
        ToolReturns("carbon_intensity_history_and_forecast_for_postcode",
                    carbon_intensity_history_and_forecast_for_postcode(
                        arg.val[1], arg.val[2], arg.val[3], now, Answers(server)),
                    IF Truthy(arg.val[3]) THEN Answers(server).regional
                    ELSE Answers(server).national)
CallForecastNational ==
    /\ called = ""
    /\ \E server \in Servers, now \in Nows :
        ToolReturns("carbon_intensity_history_and_forecast_national",
                    carbon_intensity_history_and_forecast_national(
                        arg.val[1], arg.val[2], arg.val[4], now, Answers(server)),
                    Answers(server).national)
CallGenerationMix ==
    /\ called = ""
    /\ \E server \in Servers :
        ToolReturns("current_national_generation_mix",
                    current_national_generation_mix(Answers(server)),
                    Answers(server).generation)

CarbonNext ==
    \/ CallCurrentInPostcode
    \/ CallForecastForPostcode
    \/ CallForecastNational
    \/ CallGenerationMix

CarbonSpec == CarbonInit /\ [][CarbonNext]_vars

----------------------------------------------------------------------------
(* What the normalizers are required to do *)

\* The postcode grammars as the documentation words them
OutwardCodeGrammar(s) ==
    \E a \in 1..2, d \in 1..2, t \in 0..1 :
        /\ Len(s) = a + d + t
        /\ \A i \in 1..Len(s) :
              IF i <= a THEN s[i] \in UpperSet
              ELSE IF i <= a + d THEN s[i] \in Digits
              ELSE s[i] \in UpperSet
InwardCodeGrammar(s) ==
    Len(s) = 3 /\ s[1] \in Digits /\ s[2] \in UpperSet /\ s[3] \in UpperSet
FullPostcodeGrammar(s) ==
    /\ Len(s) > 3
    /\ OutwardCodeGrammar(SubSeq(s, 1, Len(s) - 3))
    /\ InwardCodeGrammar(SubSeq(s, Len(s) - 2, Len(s)))

\* the input with its whitespace removed and its letters in upper case
RECURSIVE Cleaned(_)
Cleaned(s) ==
    IF s = <<>> THEN <<>>
    ELSE IF Head(s) \in Whitespace THEN Cleaned(Tail(s))
    ELSE <<UpperChar(Head(s))>> \o Cleaned(Tail(s))

IsLetter(c) == c \in UpperSet \cup LowerSet
NumericOnly(s) == Len(s) > 0 /\ \A i \in 1..Len(s) : s[i] \in Digits
ThreeLettersAtEnd(s) ==
    Len(s) >= 3 /\ \A i \in (Len(s) - 2)..Len(s) : IsLetter(s[i])
\* two runs of digits with one or more letters, and nothing else, between them
TwoDigitGroups(s) ==
    \E i, k \in 1..Len(s) :
        /\ i + 1 < k
        /\ s[i] \in Digits
        /\ s[k] \in Digits
        /\ \A j \in (i + 1)..(k - 1) : IsLetter(s[j])

AfterPostcode == called = "validate_and_parse_postcode"

\* C3: a full postcode, however cased and spaced, gives its cleaned form
\* without the last three characters
C3_FullPostcodeGivesOutward ==
    (AfterPostcode /\ IsStr(arg) /\ FullPostcodeGrammar(Cleaned(arg.val)))
        => result = PyStr(SubSeq(Cleaned(arg.val), 1, Len(Cleaned(arg.val)) - 3))

C3_Witness ==
    /\ AfterPostcode
    /\ arg = PyStr(<<"s", "w", "1", "a", " ", "1", "a", "a">>)
    /\ result = PyStr(<<"S", "W", "1", "A">>)

\* C4: a result is None or an outward code in full, and it is None for every
\* input that is neither a full postcode nor a bare outward code
C4_ResultIsOutwardCodeOrNone ==
    AfterPostcode =>
        /\ result.kind \in {"None", "str"}
        /\ result.kind = "str" => OutwardCodeGrammar(result.val)
        /\ (IsStr(arg) /\ ~FullPostcodeGrammar(Cleaned(arg.val))
                       /\ ~OutwardCodeGrammar(Cleaned(arg.val)))
              => result = PyNone

\* an input that starts with an outward code and is no postcode
C4_Witness ==
    /\ AfterPostcode
    /\ IsStr(arg)
    /\ Len(arg.val) > 3
    /\ OutwardCodeGrammar(SubSeq(Cleaned(arg.val), 1, 3))
    /\ ~FullPostcodeGrammar(Cleaned(arg.val))
    /\ ~OutwardCodeGrammar(Cleaned(arg.val))
    /\ result = PyNone

\* C5 as claimed: numeric-only strings, strings ending in three letters and
\* strings with two separated digit groups all give None
C5_EdgeCasesAllInvalid ==
    (AfterPostcode /\ IsStr(arg)
        /\ (NumericOnly(arg.val) \/ ThreeLettersAtEnd(arg.val) \/ TwoDigitGroups(arg.val)))
        => result = PyNone

\* C5 as amended: the same, but two separated digit groups give None only when
\* the cleaned input is not a full postcode
C5_EdgeCasesInvalidUnlessFullPostcode ==
    (AfterPostcode /\ IsStr(arg)
        /\ \/ NumericOnly(arg.val)
           \/ ThreeLettersAtEnd(arg.val)
           \/ (TwoDigitGroups(arg.val) /\ ~FullPostcodeGrammar(Cleaned(arg.val))))
        => result = PyNone

C5_Witness ==
    /\ AfterPostcode
    /\ IsStr(arg)
    /\ TwoDigitGroups(arg.val)
    /\ ~FullPostcodeGrammar(Cleaned(arg.val))
    /\ OutwardCodeGrammar(SubSeq(Cleaned(arg.val), 1, 3))
    /\ result = PyNone

\* C6: passing a returned outward code through the normalizer again returns
\* it unchanged
C6_PostcodeIdempotent ==
    called = "validate_and_parse_postcode again" => result = prev

C6_Witness ==
    /\ called = "validate_and_parse_postcode again"
    /\ result = PyStr(<<"S", "W", "1", "A">>)
    /\ prev = result

AfterNormalizer ==
    called \in {"validate_and_parse_postcode", "validate_and_parse_date",
                "validate_datetime"}

\* C7: no normalizer raises; each returns None or a value of its own kind,
\* and None for every empty and every non-string input
C7_NormalizersTotal ==
    AfterNormalizer =>
        /\ result.kind # "raise"
        /\ result.kind \in
              {"None", IF AfterPostcode THEN "str" ELSE "datetime"}
        /\ (~IsStr(arg) \/ arg.val = <<>>) => result = PyNone

\* a malformed timestamp reported by None
C7_Witness ==
    /\ called = "validate_datetime"
    /\ arg = PyStr(<<"2", "0", "2", "5", "-", "1", "3", "-", "0", "1", "T",
                     "0", "1", ":", "0", "0", "Z">>)
    /\ result = PyNone

IsoParseSucceeds(s) == fromisoformat(s).kind = "datetime"

\* C8: validate_and_parse_date gives None without a parse for a non-string
\* and for a string under 8 characters; a longer string is parsed, and the
\* result is the parsed instant or None when the parse fails
C8_DateLengthGateThenParse ==
    called = "validate_and_parse_date" =>
        /\ (~IsStr(arg) \/ Len(arg.val) < 8) => (result = PyNone /\ parsed = <<>>)
        /\ (IsStr(arg) /\ Len(arg.val) >= 8) =>
              /\ parsed = <<arg.val>>
              /\ IsoParseSucceeds(arg.val) => result = fromisoformat(arg.val)
              /\ ~IsoParseSucceeds(arg.val) => result = PyNone
        /\ arg = PyStr(<<"2", "0", "2", "5", "-", "0", "5", "-", "0", "1">>) =>
              result = PyDatetime(2025, 5, 1, 0, 0, 0, 0, FALSE, 0, 0)
        /\ arg = PyStr(<<"2", "0", "2", "5">>) => result = PyNone

C8_Witness ==
    /\ called = "validate_and_parse_date"
    /\ arg = PyStr(<<"2", "0", "2", "5", "-", "0", "5", "-", "0", "1">>)
    /\ result.kind = "datetime"
    /\ parsed = <<arg.val>>

\* The instant a datetime stands for: <<day number, second of the day,
\* microsecond>> in UTC for an aware one, in its own clock for a naive one
DaysBeforeYear(y) ==
    (y - 1) * 365 + ((y - 1) \div 4) - ((y - 1) \div 100) + ((y - 1) \div 400)
RECURSIVE DaysBeforeMonth(_, _)
DaysBeforeMonth(y, m) ==
    IF m = 1 THEN 0 ELSE DaysBeforeMonth(y, m - 1) + DaysInMonth(y, m - 1)
Instant(dt) ==
    LET us   == dt.microsecond - dt.utcoffset_us
        secs == dt.hour * 3600 + dt.minute * 60 + dt.second - dt.utcoffset
                  + (us \div 1000000)
        days == DaysBeforeYear(dt.year) + DaysBeforeMonth(dt.year, dt.month)
                  + dt.day + (secs \div 86400)
    IN  <<days, secs % 86400, us % 1000000>>

SameOutcome(a, b) ==
    \/ a = PyNone /\ b = PyNone
    \/ /\ a.kind = "datetime"
       /\ b.kind = "datetime"
       /\ a.val.aware = b.val.aware
       /\ Instant(a.val) = Instant(b.val)

\* C9: a timestamp ending in Z and the same timestamp ending in +00:00 are
\* both invalid or both valid with the same instant
C9_ZuluEqualsZeroOffset ==
    called = "validate_datetime with offset" => SameOutcome(prev, result)

C9_Witness ==
    /\ called = "validate_datetime with offset"
    /\ arg = PyStr(<<"2", "0", "2", "5", "-", "0", "5", "-", "0", "1", "T",
                     "0", "1", ":", "0", "0", "+", "0", "0", ":", "0", "0">>)
    /\ result = PyDatetime(2025, 5, 1, 1, 0, 0, 0, TRUE, 0, 0)
    /\ prev = result

\* s with a final "Z" replaced by "+00:00", and s itself without one
TrailingZReplaced(s) ==
    IF s # <<>> /\ s[Len(s)] = "Z"
    THEN SubSeq(s, 1, Len(s) - 1) \o UtcOffsetText
    ELSE s

\* C20: the string validate_datetime hands to the ISO parser is its input
\* with a trailing "Z" replaced by "+00:00": a "Z" elsewhere is kept, and an
\* input that does not end in "Z" is handed over unchanged.
C20_OnlyTrailingZReplaced ==
    (called = "validate_datetime" /\ IsStr(arg) /\ parsed # <<>>) =>
        parsed = <<TrailingZReplaced(arg.val)>>

\* validate_and_parse_postcode with the outward-only pattern tried first
PostcodeOutwardFirst(postcode) ==
    IF ~Truthy(postcode) THEN PyNone
    ELSE IF ~IsStr(postcode) THEN PyNone
    ELSE IF outward_pattern(CleanPostcode(postcode.val)) # NoMatch
    THEN outward_pattern(CleanPostcode(postcode.val))
    ELSE IF full_pattern(CleanPostcode(postcode.val)) # NoMatch
    THEN full_pattern(CleanPostcode(postcode.val))
    ELSE PyNone

\* C21: no cleaned string matches both the full pattern and the outward-only
\* pattern, nor both grammars as documented; the result is the same with the
\* patterns tried in the other order; and a bare outward code is returned
\* whole.
C21_GrammarsDisjoint ==
    (AfterPostcode /\ IsStr(arg)) =>
        /\ ~(/\ full_pattern(CleanPostcode(arg.val)) # NoMatch
              /\ outward_pattern(CleanPostcode(arg.val)) # NoMatch)
        /\ ~(FullPostcodeGrammar(Cleaned(arg.val)) /\ OutwardCodeGrammar(Cleaned(arg.val)))
        /\ result = PostcodeOutwardFirst(arg)
        /\ OutwardCodeGrammar(Cleaned(arg.val)) => result = PyStr(Cleaned(arg.val))

\* a bare outward code of the greatest length, which ends in digit, letter
C21_Witness ==
    /\ AfterPostcode
    /\ arg = PyStr(<<"A", "b", "1", "1", "A">>)
    /\ OutwardCodeGrammar(Cleaned(arg.val))
    /\ result = PyStr(<<"A", "B", "1", "1", "A">>)

----------------------------------------------------------------------------
(* What the formatter is required to do *)

AfterFormat == called = "format_device_state"

\* the classification rules as the documentation words them
OfTemperatureKind(key, value) ==
    Contains(Lower(key), WordLowerTemperature) /\ value.kind \in {"int", "float"}
OfBooleanKind(value) == value.kind = "bool"
IdentityOrMetadata(key) == key \in {KeySerialNumber, KeyMetadata}

\* the bullet lines of the report written for a top-level key
BulletsFor(key) ==
    {j \in DOMAIN result.val :
        result.val[j].part = "bullet" /\ result.val[j].path = <<key>>}

\* C1: every top-level key of temperature kind or of boolean kind, a
\* boolean named like a temperature included, is rendered by exactly one
\* bullet line of the report.
C1_ClassifiedKeyRenderedOnce ==
    AfterFormat =>
        \A i \in DOMAIN arg.val :
            LET key == arg.val[i][1]
                value == arg.val[i][2]
            IN  (/\ ~IdentityOrMetadata(key)
                 /\ (\/ OfTemperatureKind(key, value)
                     \/ OfBooleanKind(value)
                     \/ (Contains(Lower(key), WordLowerTemperature) /\ OfBooleanKind(value))))
                    => Cardinality(BulletsFor(key)) = 1

\* the readable name as the documentation words it: one space before every
\* uppercase letter but a leading one, then the first character uppercased
\* and the rest lowercased
RECURSIVE SpaceBeforeInnerUpper(_, _)
SpaceBeforeInnerUpper(name, i) ==
    IF i > Len(name) THEN <<>>
    ELSE (IF i > 1 /\ IsUpper(name[i]) THEN <<" ", name[i]>> ELSE <<name[i]>>)
           \o SpaceBeforeInnerUpper(name, i + 1)
DocumentedName(name) == Capitalize(SpaceBeforeInnerUpper(name, 1))

StartsWith(s, prefix) ==
    Len(s) >= Len(prefix) /\ SubSeq(s, 1, Len(prefix)) = prefix

\* C2: in every section a key is rendered under the same readable name, its
\* words separated by exactly one space; roomTemperatureTarget is rendered
\* in the Temperatures section as "Room temperature target".
C2_ReadableNameSameInEverySection ==
    AfterFormat =>
        \A j \in DOMAIN result.val :
            result.val[j].part = "bullet" =>
                LET path == result.val[j].path
                IN  StartsWith(result.val[j].text,
                               TextBullet \o DocumentedName(path[Len(path)]) \o TextColon)

\* the position of a top-level key in the record's iteration order
KeyPos(key) == CHOOSE i \in DOMAIN arg.val : arg.val[i][1] = key

InKeyOrder(lines) ==
    \A i, j \in DOMAIN lines :
        i < j => KeyPos(lines[i].path[1]) < KeyPos(lines[j].path[1])

SectionBullets(section) ==
    SelectSeq(result.val, LAMBDA l : l.part = "bullet" /\ l.section = section)
NestedHeadings ==
    SelectSeq(result.val, LAMBDA l : l.part = "heading" /\ l.section = "nested")

SectionRank(l) ==
    CASE l.section = ""                  -> 0
      [] l.section = "Temperatures"      -> 1
      [] l.section = "Status Indicators" -> 2
      [] OTHER                           -> 3

\* C10: the lines of the Temperatures section and of the Status Indicators
\* section are in the iteration order of the record's keys; the header
\* comes first, then Temperatures, then Status Indicators, then the nested
\* sections in the record's key order.
C10_SectionsAndLinesInKeyOrder ==
    AfterFormat =>
        /\ InKeyOrder(SectionBullets("Temperatures"))
        /\ InKeyOrder(SectionBullets("Status Indicators"))
        /\ InKeyOrder(NestedHeadings)
        /\ result.val[1].part = "header"
        /\ \A i, j \in DOMAIN result.val :
               i < j => SectionRank(result.val[i]) <= SectionRank(result.val[j])

\* a report with two temperature lines for keys that are not in sorted
\* order, followed by a status line
C10_Witness ==
    /\ AfterFormat
    /\ Len(SectionBullets("Temperatures")) = 2
    /\ SectionBullets("Temperatures")[1].path = <<KeyTemperatureOk>>
    /\ SectionBullets("Temperatures")[2].path = <<KeyRoomTemperatureTarget>>
    /\ Len(SectionBullets("Status Indicators")) = 1

\* the lines of the Status Indicators section written for a top-level key
StatusLinesFor(key) ==
    SelectSeq(result.val,
              LAMBDA l : /\ l.part = "bullet"
                         /\ l.section = "Status Indicators"
                         /\ l.path = <<key>>)

HasHeading(title) ==
    \E j \in DOMAIN result.val :
        result.val[j].part = "heading" /\ result.val[j].section = title

EndsWith(s, suffix) ==
    /\ Len(s) >= Len(suffix)
    /\ SubSeq(s, Len(s) - Len(suffix) + 1, Len(s)) = suffix

AllBooleans == \A i \in DOMAIN arg.val : OfBooleanKind(arg.val[i][2])

\* one status line for the key, reading Active for true and Inactive for false
RenderedAsStatus(key, value) ==
    /\ Len(StatusLinesFor(key)) = 1
    /\ EndsWith(StatusLinesFor(key)[1].text, TextColon \o TextActive) <=> value.val
    /\ EndsWith(StatusLinesFor(key)[1].text, TextColon \o TextInactive) <=> ~value.val

\* C11 as worded: in a record of booleans only, every key has its status
\* line, and the heading is there exactly when the record has a key.
C11_EveryBooleanKeyIsAStatus ==
    (AfterFormat /\ AllBooleans) =>
        /\ \A i \in DOMAIN arg.val : RenderedAsStatus(arg.val[i][1], arg.val[i][2])
        /\ HasHeading("Status Indicators") <=> arg.val # <<>>

\* C11: in a record of booleans only, every key but serialNumber and
\* _metadata has one status line reading Active iff its value is true and
\* Inactive iff it is false; the heading is present when such a key exists
\* and absent when the record has no boolean key.
C11_BooleanKeysButIdentityAreStatuses ==
    (AfterFormat /\ AllBooleans) =>
        /\ \A i \in DOMAIN arg.val :
               ~IdentityOrMetadata(arg.val[i][1])
                   => RenderedAsStatus(arg.val[i][1], arg.val[i][2])
        /\ (\E i \in DOMAIN arg.val : ~IdentityOrMetadata(arg.val[i][1]))
               => HasHeading("Status Indicators")
        /\ arg.val = <<>> => ~HasHeading("Status Indicators")

\* a record of one true and one false boolean, both rendered
C11_Witness ==
    /\ AfterFormat
    /\ arg = PyDict(<< <<KeyCompressorActive, PyBool(TRUE)>>,
                       <<KeyTemperatureOk, PyBool(FALSE)>> >>)
    /\ RenderedAsStatus(KeyCompressorActive, PyBool(TRUE))
    /\ RenderedAsStatus(KeyTemperatureOk, PyBool(FALSE))
    /\ HasHeading("Status Indicators")

\* C12: whatever their values, the keys serialNumber and _metadata produce
\* no line in Temperatures, no line in Status Indicators and no nested
\* section.
C12_IdentityAndMetadataNeverClassified ==
    AfterFormat =>
        \A j \in DOMAIN result.val :
            result.val[j].path # <<>> => ~IdentityOrMetadata(result.val[j].path[1])

\* the header line of the report
HeaderText == result.val[1].text

SerialOf(d) == Get(d, KeySerialNumber, PyNone)

\* the header shows "V" and the characters after the first 24
HeaderMasks(serial) ==
    StartsWith(HeaderText,
               TextHeaderStart \o <<"V">> \o SubSeq(serial, NoMaskLen + 1, Len(serial))
                   \o <<" ", "(">>)
HeaderShows(serial) ==
    StartsWith(HeaderText, TextHeaderStart \o serial \o <<" ", "(">>)

\* C13: a string serial longer than 24 is shown in the header as "V" and
\* its characters after the first 24, and appears in full nowhere in the
\* report; a string serial of 24 characters or fewer is shown unchanged.
C13_LongSerialNeverInFull ==
    (AfterFormat /\ IsStr(SerialOf(arg.val))) =>
        LET serial == SerialOf(arg.val).val
        IN  IF Len(serial) > NoMaskLen
            THEN /\ HeaderMasks(serial)
                 /\ ~Contains(ReportText(result.val), serial)
            ELSE HeaderShows(serial)

TextUnknownType == <<" ", "(", "U", "n", "k", "n", "o", "w", "n", ")">>

\* C14: the formatter returns a non-empty report for every record, and for
\* the empty record and index i the report is the header line alone,
\* "## Device: Device i+1 (Unknown)", followed by one empty line: no
\* Temperatures, no Status Indicators and no nested section.
C14_TotalAndHeaderOnlyWhenEmpty ==
    AfterFormat =>
        /\ result.kind = "report"
        /\ ReportText(result.val) # <<>>
        /\ result.val[1].part = "header"
        /\ arg.val = <<>> =>
               /\ ReportText(result.val)
                      = TextHeaderStart \o TextDevice \o IntText(index + 1)
                          \o TextUnknownType \o <<"\n", "\n">>
               /\ \A j \in DOMAIN result.val :
                      result.val[j].part \in {"header", "blank"}

\* the empty record at index 1
C14_Witness ==
    /\ AfterFormat
    /\ arg = PyDict(<<>>)
    /\ index = 1
    /\ Len(result.val) = 2
    /\ result.val[1].text
           = <<"#", "#", " ", "D", "e", "v", "i", "c", "e", ":", " ",
               "D", "e", "v", "i", "c", "e", " ", "2", " ",
               "(", "U", "n", "k", "n", "o", "w", "n", ")">>

AfterFormatAgain == called = "format_device_state again"

LeafLinesFor(key, subkey) ==
    SelectSeq(result.val, LAMBDA l : l.part = "bullet" /\ l.path = <<key, subkey>>)

NamedLike(key, word) == Contains(Lower(key), word)
Numeric(value) == value.kind \in {"int", "float", "bool"}
ActiveOrInactive(value) == IF value.val THEN TextActive ELSE TextInactive

\* the form of a leaf chosen by the key name alone
LeafFormByName(subkey, subvalue) ==
    IF NamedLike(subkey, WordLowerTemperature) THEN Str(subvalue) \o TextDegrees
    ELSE IF NamedLike(subkey, WordLowerPressure) THEN Str(subvalue) \o TextBar
    ELSE IF OfBooleanKind(subvalue) THEN ActiveOrInactive(subvalue)
    ELSE Str(subvalue)

\* the form of a leaf chosen by the key name, for numbers only
LeafFormByNameOfNumber(subkey, subvalue) ==
    IF NamedLike(subkey, WordLowerTemperature) /\ Numeric(subvalue)
    THEN Str(subvalue) \o TextDegrees
    ELSE IF NamedLike(subkey, WordLowerPressure) /\ Numeric(subvalue)
    THEN Str(subvalue) \o TextBar
    ELSE IF OfBooleanKind(subvalue) THEN ActiveOrInactive(subvalue)
    ELSE Str(subvalue)

\* every non-mapping entry of every nested section has one line, which
\* ends in the form given
LeavesRendered(Form(_, _)) ==
    \A i \in DOMAIN arg.val :
        LET key == arg.val[i][1]
            value == arg.val[i][2]
        IN  (value.kind = "dict" /\ key # KeyMetadata) =>
                \A k \in DOMAIN value.val :
                    LET subkey == value.val[k][1]
                        subvalue == value.val[k][2]
                    IN  subvalue.kind # "dict" =>
                            /\ Len(LeafLinesFor(key, subkey)) = 1
                            /\ EndsWith(LeafLinesFor(key, subkey)[1].text,
                                        TextColon \o Form(subkey, subvalue))

\* C16 as worded: a leaf of a nested section is one line, value and "°C"
\* when the key contains "temperature", else value and " bar" when it
\* contains "pressure", else Active/Inactive for a boolean, else the raw
\* value; the first two rules look at the key name alone.
C16_LeafUnitByKeyNameAlone == AfterFormat => LeavesRendered(LeafFormByName)

\* C16: as above, but the temperature and the pressure rule apply only to
\* a numeric value (a boolean counts as a number); a leaf so named whose
\* value is not numeric falls through to the later rules.
C16_LeafUnitByKeyNameOfNumbers ==
    AfterFormat => LeavesRendered(LeafFormByNameOfNumber)

\* a nested section with a temperature entry that holds a string
C16_Witness ==
    /\ AfterFormat
    /\ arg = PyDict(<< <<KeyCircuit, SensorDict>> >>)
    /\ Len(LeafLinesFor(KeyCircuit, KeyFlowTemperature)) = 1
    /\ LeafLinesFor(KeyCircuit, KeyFlowTemperature)[1].text
           = <<"-", " ", "F", "l", "o", "w", " ", "t", "e", "m", "p", "e", "r",
               "a", "t", "u", "r", "e", ":", " ", "A", "U", "T", "O">>
    /\ EndsWith(LeafLinesFor(KeyCircuit, KeyPressureTemperature)[1].text,
                <<":", " ", "2", DegreeSign, "C">>)

\* the lines written for the mapping at subkey of the nested mapping at key
SubSectionLines(key, subkey) ==
    SelectSeq(result.val,
              LAMBDA l : Len(l.path) >= 2 /\ l.path[1] = key /\ l.path[2] = subkey)

\* str(value): the value as it is, without unit or status text
RawText(value) == Str(value)

SubSectionAsDocumented(lines, key, subkey, entries) ==
    /\ Len(lines) = 1 + Len(entries)
    /\ lines[1].part = "subheading"
    /\ lines[1].text = TextH4 \o Capitalize(subkey)
    /\ \A n \in DOMAIN entries :
          /\ lines[n + 1].part = "bullet"
          /\ lines[n + 1].path = <<key, subkey, entries[n][1]>>
          /\ lines[n + 1].text = TextBullet \o DocumentedName(entries[n][1])
                                   \o TextColon \o RawText(entries[n][2])

\* C22: a mapping inside a top-level nested mapping is rendered by a
\* sub-section titled by its key, followed by one line per entry of the form
\* "- <ReadableName>: <value>" with the raw value, whatever the entry's name
\* and type; a mapping among these entries is one such line and is not
\* expanded.
C22_OneFurtherLevelRaw ==
    AfterFormat =>
        /\ \A j \in DOMAIN result.val : Len(result.val[j].path) <= 3
        /\ \A i \in DOMAIN arg.val :
             (arg.val[i][2].kind = "dict" /\ arg.val[i][1] # KeyMetadata) =>
                \A k \in DOMAIN arg.val[i][2].val :
                    arg.val[i][2].val[k][2].kind = "dict" =>
                        SubSectionAsDocumented(SubSectionLines(arg.val[i][1],
                                                               arg.val[i][2].val[k][1]),
                                               arg.val[i][1],
                                               arg.val[i][2].val[k][1],
                                               arg.val[i][2].val[k][2].val)

\* the zone of a circuit: a temperature, a pressure, a boolean and a mapping
C22_Witness ==
    /\ AfterFormat
    /\ arg = PyDict(<< <<KeyCircuit, CircuitDict>> >>)
    /\ Len(SubSectionLines(KeyCircuit, KeyZone)) = 6
    /\ SubSectionLines(KeyCircuit, KeyZone)[1].text = <<"#", "#", "#", "#", " ", "Z", "o", "n", "e">>
    /\ SubSectionLines(KeyCircuit, KeyZone)[2].text = <<"-", " ", "N", "a", "m", "e", ":", " ", "l", "i", "v", "i", "n", "g">>
    /\ SubSectionLines(KeyCircuit, KeyZone)[3].text = <<"-", " ", "F", "l", "o", "w", " ", "t", "e", "m", "p", "e", "r", "a", "t", "u", "r", "e", ":", " ", "3", "0">>
    /\ SubSectionLines(KeyCircuit, KeyZone)[4].text = <<"-", " ", "W", "a", "t", "e", "r", " ", "p", "r", "e", "s", "s", "u", "r", "e", ":", " ", "1", ".", "5">>
    /\ SubSectionLines(KeyCircuit, KeyZone)[5].text = <<"-", " ", "P", "u", "m", "p", " ", "r", "u", "n", "n", "i", "n", "g", ":", " ", "F", "a", "l", "s", "e">>
    /\ SubSectionLines(KeyCircuit, KeyZone)[6].text
         = <<"-", " ", "I", "n", "n", "e", "r", ":", " ", "{", "'", "n", "a", "m", "e", "'", ":", " ", "'", "l", "i", "v", "i", "n", "g", "'", "}">>

\* a key no classification rule applies to: its value is a string, or a
\* number that is not a boolean under a name without "temperature"
Unclassified(key, value) ==
    \/ value.kind = "str"
    \/ value.kind \in {"int", "float"} /\ ~NamedLike(key, WordLowerTemperature)

\* the record without the item at position i
WithoutItem(state_data, i) ==
    SubSeq(state_data, 1, i - 1) \o SubSeq(state_data, i + 1, Len(state_data))

WithoutHeader(lines) == SelectSeq(lines, LAMBDA l : l.part # "header")

\* C23: a top-level key no classification rule applies to gets no bullet
\* line and no section, the report is produced all the same, and every line
\* but the header, which shows serialNumber and type, is the line the record
\* without that key gives; for a key other than those two the whole report
\* is the same.
C23_UnclassifiedKeyOmitted ==
    AfterFormat =>
        /\ result.kind = "report"
        /\ \A i \in DOMAIN arg.val :
             Unclassified(arg.val[i][1], arg.val[i][2]) =>
                /\ \A j \in DOMAIN result.val :
                      result.val[j].path = <<>> \/ result.val[j].path[1] # arg.val[i][1]
                /\ WithoutHeader(result.val)
                     = WithoutHeader(format_device_state(WithoutItem(arg.val, i), index))
                /\ arg.val[i][1] \notin {KeySerialNumber, KeyType} =>
                      result.val = format_device_state(WithoutItem(arg.val, i), index)

\* a number under a name without "temperature" and a string under a name
\* with it: the report is the one of the empty record
C23_Witness ==
    /\ AfterFormat
    /\ arg = PyDict(<< <<KeyCompressorActive, PyInt(21)>>,
                       <<KeyTemperatureOk, PyStr(TextVWL)>> >>)
    /\ Unclassified(KeyCompressorActive, PyInt(21))
    /\ Unclassified(KeyTemperatureOk, PyStr(TextVWL))
    /\ Len(result.val) = 2
    /\ result.val = format_device_state(<<>>, index)

----------------------------------------------------------------------------
(* What the Vaillant tools are required to do *)

VaillantTools ==
    {"vaillant_energy_consumption", "vaillant_advanced_diagnostics",
     "vaillant_get_topology", "vaillant_get_settings", "vaillant_get_state"}
PackageUnavailable == vaillant_import.VaillantApi = "None"

\* C17: with the vaillant-client package unavailable, each of the five
\* Vaillant tools returns a string that starts with the dependency message,
\* whatever its arguments and whether or not VAILLANT_SERIAL is set, and
\* calls no API.
C17_DependencyMessageComesFirst ==
    (called \in VaillantTools /\ PackageUnavailable) =>
        /\ result.kind = "str"
        /\ StartsWith(result.val, VAILLANT_DEPENDENCY_MESSAGE)
        /\ requests = <<>>

\* the package is missing, no serial is set and both dates are invalid
C17_Witness ==
    /\ called = "vaillant_energy_consumption"
    /\ PackageUnavailable
    /\ environ = <<>>
    /\ arg = PyArgs(<<PyNone, PyStr(<<>>), PyStr(TextDaily)>>)
    /\ result.kind = "str"
    /\ StartsWith(result.val, VAILLANT_DEPENDENCY_MESSAGE)
    /\ Len(result.val) > Len(VAILLANT_DEPENDENCY_MESSAGE)

\* the lines of a tool's report that name a device
DeviceLines ==
    SelectSeq(result.val, LAMBDA l : l.part \in {"device", "header"})

\* the serial numbers the API reported, in the order of those lines; None
\* for a state record without one
SerialsOfRecords(records) ==
    [i \in DOMAIN records |-> Get(records[i].val, KeySerialNumber, PyNone)]
ReportedSerials ==
    CASE called = "vaillant_energy_consumption" ->
           <<received[1].val[1].systemComponentSerialNumber>>
      [] called = "vaillant_advanced_diagnostics" ->
           SelectSeq([i \in DOMAIN received[1].val |-> received[1].val[i].serialNumber],
                     LAMBDA s : s # PyNone)
      [] called = "vaillant_get_state" ->
           IF received[1].kind = "list" THEN SerialsOfRecords(received[1].val)
           ELSE SerialsOfRecords(<<received[1]>>)
      [] OTHER ->
           [i \in DOMAIN received[1].val |-> received[1].val[i].serialNumber]

\* the serial a line shows: the word after the first ": " or "| "
SerialStart(text) ==
    2 + CHOOSE i \in 1..Len(text) :
            /\ SubSeq(text, i, i + 1) \in {<<":", " ">>, <<"|", " ">>}
            /\ \A j \in 1..(i - 1) :
                  SubSeq(text, j, j + 1) \notin {<<":", " ">>, <<"|", " ">>}
WordAt(text, start) ==
    SubSeq(text, start,
           CHOOSE e \in (start - 1)..Len(text) :
               /\ \A j \in start..e : text[j] # " "
               /\ e = Len(text) \/ text[e + 1] = " ")
ShownSerial(text) == WordAt(text, SerialStart(text))

\* in the reports of the given tools every serial the API reported is shown
\* as format_device_state shows it
SerialsMaskedAsFormatter(tools) ==
    (called \in tools /\ result.kind = "report") =>
        /\ Len(DeviceLines) = Len(ReportedSerials)
        /\ \A i \in DOMAIN ReportedSerials :
              ReportedSerials[i] # PyNone =>
                 ShownSerial(DeviceLines[i].text) = masked_serial(ReportedSerials[i]).val

\* C25: in the report of each of the five Vaillant tools a serial longer
\* than 24 characters is shown as "V" and the characters after the first
\* 24, and a serial of 24 characters or fewer is shown unchanged: the rule
\* of format_device_state.
C25_SerialsMaskedByOneRule == SerialsMaskedAsFormatter(VaillantTools)

\* the three tools that test the length before masking
ConditionalMaskingTools ==
    {"vaillant_get_topology", "vaillant_get_settings", "vaillant_get_state"}
SerialsMaskedWhereLengthIsTested == SerialsMaskedAsFormatter(ConditionalMaskingTools)

\* a serial of 24 characters in the report of the energy consumption
ShortSerialShownAsV ==
    /\ called = "vaillant_energy_consumption"
    /\ result.kind = "report"
    /\ ReportedSerials = <<PyStr(Serial24)>>
    /\ ShownSerial(DeviceLines[1].text) = <<"V">>
LongSerialMaskedReached ==
    /\ called = "vaillant_advanced_diagnostics"
    /\ result.kind = "report"
    /\ ReportedSerials = <<PyStr(LongSerial)>>
    /\ ShownSerial(DeviceLines[1].text) = <<"V", "A", "B", "C", "D", "E", "F">>

----------------------------------------------------------------------------
(* What the carbon intensity tools are required to do *)

PostcodeOfEnviron == getenv(environ, KeyUserPostcode, PyNone)
RequestedEndpoints == [i \in DOMAIN requests |-> requests[i].args[1].val]

\* C18: called without a postcode while USER_POSTCODE holds a valid
\* postcode, current_uk_grid_carbon_intensity_in_postcode does not answer
\* 'User postcode not found' and requests the region of the outward code
\* of that postcode.
C18_PostcodeReadFromEnviron ==
    (/\ called = "current_uk_grid_carbon_intensity_in_postcode"
     /\ arg.val[3] = PyNone
     /\ Truthy(validate_and_parse_postcode(PostcodeOfEnviron))) =>
        /\ result # PyStr(TextPostcodeNotFound)
        /\ RequestedEndpoints =
             <<BASE_URL \o TextRegionalPostcode
                 \o validate_and_parse_postcode(PostcodeOfEnviron).val>>

ForecastTools ==
    {"carbon_intensity_history_and_forecast_for_postcode",
     "carbon_intensity_history_and_forecast_national"}
\* the instant written in an endpoint
RequestedFrom(d) ==
    \E i \in DOMAIN requests :
        Contains(RequestedEndpoints[i], <<"/">> \o isoformat(d) \o <<"/">>)
EmptyOrMalformed(from_datetime) ==
    /\ IsStr(from_datetime)
    /\ \/ from_datetime.val = <<>>
       \/ ~IsoParseSucceeds(Replace(from_datetime.val, "Z", UtcOffsetText))

\* C19: a forecast tool called without from_datetime (None) starts from the
\* current time; called with a from_datetime that is empty or does not
\* parse, it returns the 'Invalid datetime format' message and requests
\* nothing; called with one that parses, it starts from that instant and
\* not from the current time.
C19_NowOnlyWhenMissing ==
    called \in ForecastTools =>
        /\ arg.val[1] = PyNone =>
              /\ result # PyStr(TextInvalidDatetime)
              /\ requests # <<>> => \E now \in Nows : RequestedFrom(now)
        /\ EmptyOrMalformed(arg.val[1]) =>
              /\ result = PyStr(TextInvalidDatetime)
              /\ requests = <<>>
        /\ (arg.val[1] # PyNone /\ ~EmptyOrMalformed(arg.val[1])) =>
              /\ result # PyStr(TextInvalidDatetime)
              /\ \A now \in Nows : ~RequestedFrom(now)
              /\ requests # <<>> => RequestedFrom(validate_datetime(arg.val[1]).ret)
        /\ EmptyOrMalformed(PyStr(<<>>))
        /\ EmptyOrMalformed(PyStr(<<"n", "o", "w">>))
        /\ ~EmptyOrMalformed(PyStr(Example20250501 \o <<"Z">>))

\* a from_datetime that does not parse, with a valid postcode
C19_Witness ==
    /\ called = "carbon_intensity_history_and_forecast_for_postcode"
    /\ arg.val[1] = PyStr(<<"n", "o", "w">>)
    /\ arg.val[3] = PyStr(PostcodeSW1A1AA)
    /\ result = PyStr(TextInvalidDatetime)
    /\ requests = <<>>

\* no from_datetime: the request starts from the clock's reading
ForecastFromNowReached ==
    /\ called = "carbon_intensity_history_and_forecast_national"
    /\ arg.val[1] = PyNone
    /\ RequestedFrom(PyDatetime(2025, 5, 1, 12, 0, 0, 123456, FALSE, 0, 0))

CurrentTool == "current_uk_grid_carbon_intensity_in_postcode"
PostcodeForecastTool == "carbon_intensity_history_and_forecast_for_postcode"
TextPostcodePart == <<"/", "p", "o", "s", "t", "c", "o", "d", "e", "/">>

\* the arguments the called tool takes, of those a validator exists for
TakesDatetime == called \in ForecastTools
TakesPostcode == called \in {CurrentTool, PostcodeForecastTool}
DatetimePasses(v) == validate_datetime(v).ret # PyNone
PostcodePasses(v) == validate_and_parse_postcode(v) # PyNone

\* every requested endpoint that names a postcode ends in the outward code
\* of the postcode argument, and in the argument itself only if the two are
\* the same
PostcodePartNormalized ==
    \A i \in DOMAIN requests :
        Contains(RequestedEndpoints[i], TextPostcodePart) =>
            /\ TakesPostcode
            /\ PostcodePasses(arg.val[3])
            /\ EndsWith(RequestedEndpoints[i],
                        TextPostcodePart \o validate_and_parse_postcode(arg.val[3]).val)
            /\ arg.val[3].val # validate_and_parse_postcode(arg.val[3]).val =>
                  ~EndsWith(RequestedEndpoints[i], TextPostcodePart \o arg.val[3].val)

DatetimeErrorFirst ==
    (/\ called = PostcodeForecastTool
     /\ arg.val[1] # PyNone /\ ~DatetimePasses(arg.val[1])
     /\ arg.val[3] # PyNone /\ ~PostcodePasses(arg.val[3])) =>
        result = PyStr(TextInvalidDatetime) /\ requests = <<>>

BothInvalidReached ==
    /\ called = PostcodeForecastTool
    /\ arg.val[1] = PyStr(<<"n", "o", "w">>)
    /\ arg.val[3] = PyStr(<<"1", "2", "3">>)
    /\ result = PyStr(TextInvalidDatetime)

=============================================================================
